---- MODULE Spec2Model ----
(***************************************************************************)
(* Interrupt-aware deadlock detection of rapx (analysis/deadlock):         *)
(* the IrqState analysis (isr_analyzer.rs), the lockset worklist           *)
(* (lockset_analyzer.rs), the lock dependency graph constructor            *)
(* (ldg_constructor.rs) and the reporter (deadlock_reporter.rs).            *)
(***************************************************************************)
EXTENDS Integers, Sequences, FiniteSets, TLC

(***************************************************************************)
(* Lattices (types.rs)                                                     *)
(***************************************************************************)

\* Lock instances (DefIds of the lock statics).
Locks == {"A", "B"}

\* IrqState: Bottom, MustBeDisabled, MayBeEnabled.
IrqStates == {"Bottom", "MustBeDisabled", "MayBeEnabled"}

\* LockState: the four variants of the enum.
LockStates == {"Bottom", "MustHold", "MustNotHold", "MayHold"}

\* A key that is not in the HashMap lock_states.
Absent == "Absent"

\* IsrState::union computing the meet of two non-Bottom states: Disabled
\* wins over Enabled.
IrqUnionDisabledWins(a, b) ==
    IF a = "Bottom" THEN b
    ELSE IF b = "Bottom" THEN a
    ELSE IF a = "MustBeDisabled" \/ b = "MustBeDisabled" THEN "MustBeDisabled"
    ELSE "MayBeEnabled"

\* IsrState::union
IrqUnion(a, b) ==
    IF a = "Bottom" THEN b
    ELSE IF b = "Bottom" THEN a
    ELSE IF a = "MustBeDisabled" /\ b = "MustBeDisabled" THEN "MustBeDisabled"
    ELSE "MayBeEnabled"

\* LockState::union with MustHold collapsed into MayHold when joined.
LockStateUnionCollapsed(a, b) ==
    IF a = "Bottom" THEN b
    ELSE IF b = "Bottom" THEN a
    ELSE IF a = "MustNotHold" /\ b = "MustNotHold" THEN "MustNotHold"
    ELSE "MayHold"

\* LockState::union without the arm (_, Bottom) => self.
LockStateUnionNoRightBottom(a, b) ==
    IF a = "Bottom" THEN b
    ELSE IF a = "MayHold" THEN "MayHold"
    ELSE IF b = "MayHold" THEN "MayHold"
    ELSE IF a = "MustHold" /\ b = "MustHold" THEN "MustHold"
    ELSE IF a = "MustNotHold" /\ b = "MustNotHold" THEN "MustNotHold"
    ELSE "MayHold"

\* LockState::union
LockStateUnion(a, b) ==
    IF a = "Bottom" THEN b
    ELSE IF b = "Bottom" THEN a
    ELSE IF a = "MayHold" THEN "MayHold"
    ELSE IF b = "MayHold" THEN "MayHold"
    ELSE IF a = "MustHold" /\ b = "MustHold" THEN "MustHold"
    ELSE IF a = "MustNotHold" /\ b = "MustNotHold" THEN "MustNotHold"
    ELSE "MayHold"

\* LockSet::new: no lock has a state, no lock has a recorded call site.
NewLockSet ==
    [lock_states |-> [l \in Locks |-> Absent],
     lock_sites  |-> [l \in Locks |-> {}]]

\* The lock_sites half of a lockset join: union of the call-site sets.
MergeLockSites(self, other) ==
    [l \in Locks |-> self.lock_sites[l] \cup other.lock_sites[l]]

\* LockSet::merge with the states of `other` written over those of `self`.
MergeOverwrite(self, other) ==
    [lock_states |->
        [l \in Locks |->
            IF other.lock_states[l] = Absent THEN self.lock_states[l]
            ELSE other.lock_states[l]],
     lock_sites |-> MergeLockSites(self, other)]

\* LockSet::merge: a state of `other` is joined into the state `self` has for
\* the lock, or inserted when `self` has none.
Merge(self, other) ==
    [lock_states |->
        [l \in Locks |->
            IF other.lock_states[l] = Absent THEN self.lock_states[l]
            ELSE IF self.lock_states[l] # Absent
                 THEN LockStateUnion(self.lock_states[l], other.lock_states[l])
                 ELSE other.lock_states[l]],
     lock_sites |-> MergeLockSites(self, other)]

\* LockSet::update_lock_state: HashMap::insert overwrites.
UpdateLockState(ls, lock_id, state) ==
    [ls EXCEPT !.lock_states[lock_id] = state]

(***************************************************************************)
(* MIR terminators as the analyses see them                                *)
(***************************************************************************)

\* The callee of a Call whose func.const_fn_def() is None.
Unresolved == 0

Term(kind, callee, local, succ) ==
    [kind |-> kind, callee |-> callee, local |-> local, succ |-> succ]

\* Call { func, destination, target }: callee, destination.local, successors
Call(callee, dest, succ) == Term("Call", callee, dest, succ)
\* Drop { place, target }
Drop(place, succ) == Term("Drop", Unresolved, place, succ)
Return == Term("Return", Unresolved, 0, {})
\* Goto / SwitchInt: no effect on either analysis
Goto(succ) == Term("Goto", Unresolved, 0, succ)

(***************************************************************************)
(* Transfer functions                                                      *)
(***************************************************************************)

\* FuncIsrAnalyzer::apply_terminator_effect without the disable arm.
IrqApplyTerminatorEffectNoDisable(t, state, enable_apis, disable_apis, mir, analyzed) ==
    IF t.kind = "Call" /\ t.callee # Unresolved
    THEN LET s1 == IF t.callee \in enable_apis THEN "MayBeEnabled" ELSE state
             found_api == t.callee \in enable_apis \cup disable_apis
         IN IF ~found_api /\ t.callee \in mir /\ t.callee \in DOMAIN analyzed
            THEN IrqUnion(s1, analyzed[t.callee].exit_irq_state)
            ELSE s1
    ELSE state

\* FuncIsrAnalyzer::apply_terminator_effect with the callee's exit state
\* written over the current state instead of joined into it.
IrqApplyTerminatorEffectOverwrite(t, state, enable_apis, disable_apis, mir, analyzed) ==
    IF t.kind = "Call" /\ t.callee # Unresolved
    THEN LET s1 == IF t.callee \in enable_apis THEN "MayBeEnabled" ELSE state
             s2 == IF t.callee \in disable_apis THEN "MustBeDisabled" ELSE s1
             found_api == t.callee \in enable_apis \cup disable_apis
         IN IF ~found_api /\ t.callee \in mir /\ t.callee \in DOMAIN analyzed
            THEN analyzed[t.callee].exit_irq_state
            ELSE s2
    ELSE state

\* FuncIsrAnalyzer::apply_terminator_effect: an enable API sets MayBeEnabled,
\* a disable API then sets MustBeDisabled, any other callee with MIR and a
\* cached result has its exit_irq_state joined in.
IrqApplyTerminatorEffect(t, state, enable_apis, disable_apis, mir, analyzed) ==
    IF t.kind = "Call" /\ t.callee # Unresolved
    THEN LET s1 == IF t.callee \in enable_apis THEN "MayBeEnabled" ELSE state
             s2 == IF t.callee \in disable_apis THEN "MustBeDisabled" ELSE s1
             found_api == t.callee \in enable_apis \cup disable_apis
         IN IF ~found_api /\ t.callee \in mir /\ t.callee \in DOMAIN analyzed
            THEN IrqUnion(s2, analyzed[t.callee].exit_irq_state)
            ELSE s2
    ELSE state

\* FuncLockSetAnalyzerInner::apply_terminator_effect with a Drop that
\* releases the lock only when it is MayHold.
LockApplyTerminatorEffectDropHeld(t, state, lockmap, analyzed) ==
    IF t.kind = "Call"
    THEN IF t.callee = Unresolved THEN state
         ELSE IF t.local \in DOMAIN lockmap
              THEN UpdateLockState(state, lockmap[t.local], "MayHold")
              ELSE Merge(state,
                         IF t.callee \in DOMAIN analyzed
                         THEN analyzed[t.callee].exit_lockset
                         ELSE NewLockSet)
    ELSE IF t.kind = "Drop"
    THEN IF t.local \in DOMAIN lockmap
            /\ state.lock_states[lockmap[t.local]] = "MayHold"
         THEN UpdateLockState(state, lockmap[t.local], "MustNotHold")
         ELSE state
    ELSE state

\* FuncLockSetAnalyzerInner::apply_terminator_effect with an acquisition
\* that toggles a lock already MayHold back to MustNotHold.
LockApplyTerminatorEffectToggle(t, state, lockmap, analyzed) ==
    IF t.kind = "Call"
    THEN IF t.callee = Unresolved THEN state
         ELSE IF t.local \in DOMAIN lockmap
              THEN UpdateLockState(state, lockmap[t.local],
                        IF state.lock_states[lockmap[t.local]] = "MayHold"
                        THEN "MustNotHold" ELSE "MayHold")
              ELSE Merge(state,
                         IF t.callee \in DOMAIN analyzed
                         THEN analyzed[t.callee].exit_lockset
                         ELSE NewLockSet)
    ELSE IF t.kind = "Drop"
    THEN IF t.local \in DOMAIN lockmap
         THEN UpdateLockState(state, lockmap[t.local], "MustNotHold")
         ELSE state
    ELSE state

\* FuncLockSetAnalyzerInner::apply_terminator_effect with the callee's exit
\* lockset written over the current states instead of joined with them.
LockApplyTerminatorEffectCalleeWins(t, state, lockmap, analyzed) ==
    IF t.kind = "Call"
    THEN IF t.callee = Unresolved THEN state
         ELSE IF t.local \in DOMAIN lockmap
              THEN UpdateLockState(state, lockmap[t.local], "MayHold")
              ELSE MergeOverwrite(state,
                         IF t.callee \in DOMAIN analyzed
                         THEN analyzed[t.callee].exit_lockset
                         ELSE NewLockSet)
    ELSE IF t.kind = "Drop"
    THEN IF t.local \in DOMAIN lockmap
         THEN UpdateLockState(state, lockmap[t.local], "MustNotHold")
         ELSE state
    ELSE state

\* FuncLockSetAnalyzerInner::apply_terminator_effect, the effect on `state`:
\* a resolved Call into a mapped guard local sets the lock MayHold (no call
\* site is recorded), any other resolved Call merges the callee's cached
\* exit_lockset, a Drop of a mapped guard local sets the lock MustNotHold.
\* (The Return arm changes func_lock_info, not `state`: see LsEngineStep.)
LockApplyTerminatorEffect(t, state, lockmap, analyzed) ==
    IF t.kind = "Call"
    THEN IF t.callee = Unresolved THEN state
         ELSE IF t.local \in DOMAIN lockmap
              THEN UpdateLockState(state, lockmap[t.local], "MayHold")
              ELSE Merge(state,
                         IF t.callee \in DOMAIN analyzed
                         THEN analyzed[t.callee].exit_lockset
                         ELSE NewLockSet)
    ELSE IF t.kind = "Drop"
    THEN IF t.local \in DOMAIN lockmap
         THEN UpdateLockState(state, lockmap[t.local], "MustNotHold")
         ELSE state
    ELSE state

(***************************************************************************)
(* Input programs: the crate as the compiler front end hands it over       *)
(***************************************************************************)

\* A callee that is resolved but is not a function of the crate (no MIR,
\* no lock map, no cached result): the lock-acquire API of the lock library.
Ext == 9

\* A local that is no lock guard (the destination of an ordinary call).
Tmp == 5

\* How many programs of the catalogue are analysed.
NumPrograms == 14

\* global_lockmap: the functions that have a LocalLockMap, each mapping its
\* guard locals to lock instances.
Program(name, body, lockmap, isr_entries, enable_apis, disable_apis) ==
    [name |-> name, body |-> body, lockmap |-> lockmap,
     isr_entries |-> isr_entries, enable_apis |-> enable_apis,
     disable_apis |-> disable_apis]

\* A global_lockmap without any function.
EmptyLockMap == << >>

\* fn: lock = LOCK.lock(); drop(lock); return
AcquireRelease == << Call(Ext, 1, {2}), Drop(1, {3}), Return >>
\* fn body of an interrupt API or of any function that only returns
OnlyReturn == << Return >>

\* S1: F acquires LOCK and drops the guard; the ISR entry I acquires LOCK.
ProgS1 ==
    Program("S1", << AcquireRelease, AcquireRelease >>,
            (1 :> <<"A">>) @@ (2 :> <<"A">>), {2}, {}, {})

\* S2: as S1, F calls disable_local (3) before the acquisition and
\* enable_local (4) after the drop.
ProgS2 ==
    Program("S2",
            << << Call(3, Tmp, {2}), Call(Ext, 1, {3}), Drop(1, {4}),
                  Call(4, Tmp, {5}), Return >>,
               AcquireRelease, OnlyReturn, OnlyReturn >>,
            (1 :> <<"A">>) @@ (2 :> <<"A">>) @@ (3 :> << >>), {2}, {4}, {3})

\* S3: F1 acquires A then B, F2 acquires B then A; no ISR.
ProgS3 ==
    Program("S3",
            << << Call(Ext, 1, {2}), Call(Ext, 2, {3}), Drop(2, {4}),
                  Drop(1, {5}), Return >>,
               << Call(Ext, 1, {2}), Call(Ext, 2, {3}), Drop(2, {4}),
                  Drop(1, {5}), Return >> >>,
            (1 :> <<"A", "B">>) @@ (2 :> <<"B", "A">>), {}, {}, {})

\* S4: F acquires A, calls G (2), drops the guard; G acquires B.
ProgS4 ==
    Program("S4",
            << << Call(Ext, 1, {2}), Call(2, Tmp, {3}), Drop(1, {4}), Return >>,
               AcquireRelease >>,
            (1 :> <<"A">>) @@ (2 :> <<"B">>), {}, {}, {})

\* S5: F acquires A, drops the guard, then calls G (2); G acquires B.
ProgS5 ==
    Program("S5",
            << << Call(Ext, 1, {2}), Drop(1, {3}), Call(2, Tmp, {4}), Return >>,
               AcquireRelease >>,
            (1 :> <<"A">>) @@ (2 :> <<"B">>), {}, {}, {})

\* S6: F acquires A on one of two branches, the branches join, F calls G (2).
ProgS6 ==
    Program("S6",
            << << Goto({2, 3}), Call(Ext, 1, {4}), Goto({4}),
                  Call(2, Tmp, {5}), Drop(1, {6}), Return >>,
               AcquireRelease >>,
            (1 :> <<"A">>) @@ (2 :> <<"B">>), {}, {}, {})

\* S6 with the other branch dropping the (never taken) guard, so that it
\* carries A as MustNotHold instead of absent.
ProgS6Drop ==
    Program("S6Drop",
            << << Goto({2, 3}), Call(Ext, 1, {4}), Drop(1, {4}),
                  Call(2, Tmp, {5}), Drop(1, {6}), Return >>,
               AcquireRelease >>,
            (1 :> <<"A">>) @@ (2 :> <<"B">>), {}, {}, {})

\* F holds A across a call to G (2); G calls H (3); H acquires B.  G is
\* analysed with the entry of its call site and again as a caller of H.
ProgChain ==
    Program("Chain",
            << << Call(Ext, 1, {2}), Call(2, Tmp, {3}), Drop(1, {4}), Return >>,
               << Call(3, Tmp, {2}), Return >>,
               AcquireRelease >>,
            (1 :> <<"A">>) @@ (2 :> << >>) @@ (3 :> <<"B">>), {3}, {}, {})

\* A loop whose body disables interrupts before the first round only,
\* holds A and re-enables interrupts at the end of each round; the ISR
\* entry I (2) acquires A; disable_local (3), enable_local (4).
ProgLoop ==
    Program("Loop",
            << << Call(3, Tmp, {2}), Call(Ext, 1, {3}), Drop(1, {4}),
                  Call(4, Tmp, {5}), Goto({2, 6}), Return >>,
               AcquireRelease, OnlyReturn, OnlyReturn >>,
            (1 :> <<"A">>) @@ (2 :> <<"A">>), {2}, {4}, {3})

\* F holds A across a recursive call of itself.
ProgRec ==
    Program("Rec",
            << << Call(Ext, 1, {2}), Call(1, Tmp, {3}), Drop(1, {4}), Return >> >>,
            (1 :> <<"A">>), {}, {}, {})

\* F disables interrupts on one branch only and calls G (2), which returns
\* with interrupts disabled, on the other; G and H (3) call each other.
ProgIrqJoin ==
    Program("IrqJoin",
            << << Goto({2, 3}), Call(4, Tmp, {4}), Call(2, Tmp, {4}),
                  Call(Ext, 1, {5}), Call(5, Tmp, {6}), Drop(1, {7}), Return >>,
               << Call(4, Tmp, {2}), Call(3, Tmp, {3}), Return >>,
               << Goto({2, 3}), Call(2, Tmp, {3}), Return >>,
               OnlyReturn, OnlyReturn >>,
            (1 :> <<"A">>) @@ (2 :> << >>), {3}, {5}, {4})

\* Two call sites of G (2) in F, the first with A held and the second
\* after the guard is dropped; G acquires B and is an ISR entry.
ProgTwoSites ==
    Program("TwoSites",
            << << Call(Ext, 1, {2}), Call(2, Tmp, {3}), Drop(1, {4}),
                  Call(2, Tmp, {5}), Return >>,
               AcquireRelease >>,
            (1 :> <<"A">>) @@ (2 :> <<"B">>), {2}, {}, {})

\* The programs in the order they are selected by NumPrograms.  Every
\* body numbers its blocks in reverse postorder, block 1 is START_BLOCK and
\* every block is reachable from it.
\* F calls G holding A and H after releasing it, G calls H, and H acquires
\* and releases B: H is reached with two different locksets along two paths.
ProgDiamond ==
    Program("Diamond",
            << << Call(Ext, 1, {2}), Call(2, Tmp, {3}), Drop(1, {4}),
                  Call(3, Tmp, {5}), Return >>,
               << Call(3, Tmp, {2}), Return >>,
               AcquireRelease >>,
            (1 :> <<"A">>) @@ (2 :> << >>) @@ (3 :> <<"B">>), {}, {}, {})

\* F enables interrupts (enable_local is 2) and then loops for ever: its
\* Return is unreachable.  G disables interrupts (disable_local is 3) and
\* calls F.  No function has a lock.
ProgSpin ==
    Program("Spin",
            << << Call(2, Tmp, {2}), Goto({2}), Return >>,
               OnlyReturn, OnlyReturn,
               << Call(3, Tmp, {2}), Call(1, Tmp, {3}), Return >> >>,
            EmptyLockMap, {}, {2}, {3})

\* F calls G (2) and H (3); G disables interrupts (disable_local is 4) and
\* calls H; H calls G: G and H are on a call-graph cycle that F enters at
\* either of them.  No function has a lock.
ProgCycle ==
    Program("Cycle",
            << << Call(2, Tmp, {2}), Call(3, Tmp, {3}), Return >>,
               << Call(4, Tmp, {2}), Call(3, Tmp, {3}), Return >>,
               << Call(2, Tmp, {2}), Return >>,
               OnlyReturn >>,
            EmptyLockMap, {}, {}, {4})

Catalogue ==
    << ProgS1, ProgS2, ProgS3, ProgS4, ProgS5, ProgS6, ProgS6Drop,
       ProgChain, ProgLoop, ProgIrqJoin, ProgRec, ProgTwoSites, ProgSpin,
       ProgCycle, ProgDiamond >>

Min(a, b) == IF a < b THEN a ELSE b

Programs ==
    { Catalogue[i] : i \in 1 .. Min(NumPrograms, Len(Catalogue)) }

\* tcx.hir().body_owners(): the functions of the crate, in order.
BodyOwners(p) == [i \in 1 .. Len(p.body) |-> i]
Funcs(p) == 1 .. Len(p.body)
\* tcx.is_mir_available
MirAvailable(p) == Funcs(p)
Blocks(p, f) == 1 .. Len(p.body[f])
\* START_BLOCK
StartBlock == 1

\* CallGraphInfo::get_callees_defid: the resolved callees of f.
Callees(p, f) ==
    { p.body[f][b].callee : b \in { x \in Blocks(p, f) :
          p.body[f][x].kind = "Call" /\ p.body[f][x].callee # Unresolved } }

\* CallGraphInfo::get_callers_defid: the functions with a resolved call to g.
Callers(p, g) == { f \in Funcs(p) : g \in Callees(p, f) }

RECURSIVE ReachFrom(_, _, _)
ReachFrom(p, frontier, seen) ==
    IF frontier = {} THEN seen
    ELSE LET next == UNION { IF f \in Funcs(p) THEN Callees(p, f) ELSE {}
                             : f \in frontier }
         IN ReachFrom(p, next \ seen, seen \cup next)

\* CallGraphInfo::get_callees_defid_recursive: everything reachable from f
\* by one or more call edges.
CalleesRecursive(p, f) == ReachFrom(p, {f}, {})

\* The ascending enumeration of a finite set of integers.
RECURSIVE SetToSeq(_)
SetToSeq(S) ==
    IF S = {} THEN << >>
    ELSE LET m == CHOOSE x \in S : \A y \in S : x <= y
         IN << m >> \o SetToSeq(S \ {m})

\* Every order in which a finite set can be enumerated (HashMap / HashSet
\* iteration order is unspecified).
RECURSIVE Orders(_)
Orders(S) ==
    IF S = {} THEN { << >> }
    ELSE UNION { { << x >> \o r : r \in Orders(S \ {x}) } : x \in S }

InSeq(x, q) == \E i \in 1 .. Len(q) : q[i] = x


(***************************************************************************)
(* State                                                                   *)
(***************************************************************************)

VARIABLES
    prog,               \* the crate under analysis (never changes)
    stage,              \* the step of DeadlockDetector::run that is running
    \* IsrAnalyzer
    roots,              \* body owners analyze_interrupt_set has yet to visit
    frames,             \* activations of analyze_function_interrupt_set
    recursion_stack,    \* the HashSet recursion_stack
    irq_analyzed,       \* analyze_interrupt_set's analyzed_functions
    irq_engine,         \* the dataflow engine running FuncIsrAnalyzer
    program_isr_info,   \* ProgramIsrInfo: isr_funcs, func_irq_infos
    \* LockSetAnalyzer
    worklist,           \* VecDeque<(DefId, LockSet)>
    iteration_limit,
    analyzed_functions, \* LockSetAnalyzer::analyzed_functions
    func_analyzer,      \* the FuncLockSetAnalyzer of the current iteration
    program_lock_set,   \* ProgramLockSet returned by LockSetAnalyzer::run
    \* LDGConstructor and DeadlockReporter
    ldg,                \* position and collectors of LDGConstructor::run
    graph,              \* LockDependencyGraph
    report,             \* what DeadlockReporter::run reports
    \* the transfer functions applied on their own
    tf

isrVars == << roots, frames, recursion_stack, irq_analyzed, irq_engine >>
lsVars == << worklist, iteration_limit, analyzed_functions, func_analyzer >>
ldgVars == << ldg, graph, report >>
vars == << prog, stage, roots, frames, recursion_stack, irq_analyzed,
           irq_engine, program_isr_info, worklist, iteration_limit,
           analyzed_functions, func_analyzer, program_lock_set, ldg, graph,
           report, tf >>

\* A map with no entry (HashMap::new()).
EmptyMap == << >>

\* LockDependencyGraph::new(): no node, no edge.
NewGraph == [nodes |-> {}, edges |-> << >>]

IdleEngine == [active |-> FALSE, entry_sets |-> << >>, dirty |-> << >>]
IdleAnalyzer ==
    [active |-> FALSE, func_def_id |-> 0, entry_lockset |-> NewLockSet,
     func_lock_info |-> << >>, entry_sets |-> << >>, dirty |-> << >>,
     callsites |-> {}]
IdleLdg ==
    [todo |-> << >>, func |-> 0, phase |-> "idle", block |-> 0, at |-> 0,
     normal_edges |-> {}, intr_edges |-> {}, here |-> {}]
NoTransfer == [kind |-> "none"]

(***************************************************************************)
(* Stage 1: IsrAnalyzer (isr_analyzer.rs)                                  *)
(***************************************************************************)

\* IsrAnalyzer::collect_isr without the insertion of the entry itself.
CollectIsrCalleesOnly(p) ==
    UNION { CalleesRecursive(p, e) : e \in p.isr_entries \cap Funcs(p) }

\* IsrAnalyzer::collect_isr: every configured entry found in the crate and
\* everything it reaches in the call graph.
CollectIsr(p) ==
    UNION { {e} \cup CalleesRecursive(p, e) : e \in p.isr_entries \cap Funcs(p) }

\* The transfer of block b of f under the cache `analyzed`.
IrqBlockExit(p, f, b, state, analyzed) ==
    IrqApplyTerminatorEffect(p.body[f][b], state, p.enable_apis,
                             p.disable_apis, MirAvailable(p), analyzed)

\* impl JoinSemiLattice for IrqState: join
IrqJoin(self, other) == IrqUnion(self, other)

RECURSIVE IrqJoinAll(_, _)
IrqJoinAll(acc, q) ==
    IF q = << >> THEN acc ELSE IrqJoinAll(IrqJoin(acc, Head(q)), Tail(q))

\* DeadlockDetector::run up to isr_analyzer.run(): collect_isr has run,
\* analyze_interrupt_set starts with empty caches.
InitPipeline(p) ==
    /\ prog = p
    /\ stage = "isr"
    /\ roots = BodyOwners(p)
    /\ frames = << >>
    /\ recursion_stack = {}
    /\ irq_analyzed = EmptyMap
    /\ irq_engine = IdleEngine
    /\ program_isr_info = [isr_funcs |-> CollectIsr(p), func_irq_infos |-> EmptyMap]
    /\ worklist = << >>
    /\ iteration_limit = 0
    /\ analyzed_functions = EmptyMap
    /\ func_analyzer = IdleAnalyzer
    /\ program_lock_set = EmptyMap
    /\ ldg = IdleLdg
    /\ graph = NewGraph
    /\ report = {}
    /\ tf = NoTransfer

Init == \E p \in Programs : InitPipeline(p)

\* analyze_function_interrupt_set(f) without the return for a function that
\* already has a cached result.
IsrEnterNoCacheCheck(f) ==
    IF f \in recursion_stack \/ f \notin MirAvailable(prog)
    THEN UNCHANGED << frames, recursion_stack >>
    ELSE /\ recursion_stack' = recursion_stack \cup {f}
         /\ frames' = << [func |-> f, todo |-> Callees(prog, f)] >> \o frames

\* analyze_function_interrupt_set(f) up to the loop over the callees: it
\* returns at once for a cached function, one on the recursion stack or one
\* without MIR, and otherwise pushes f on the recursion stack.
IsrEnter(f) ==
    IF f \in DOMAIN irq_analyzed \/ f \in recursion_stack
       \/ f \notin MirAvailable(prog)
    THEN UNCHANGED << frames, recursion_stack >>
    ELSE /\ recursion_stack' = recursion_stack \cup {f}
         /\ frames' = << [func |-> f, todo |-> Callees(prog, f)] >> \o frames

\* analyze_interrupt_set: the loop over the body owners calls
\* analyze_function_interrupt_set on the next one.
IsrNextRoot ==
    /\ stage = "isr"
    /\ frames = << >>
    /\ roots # << >>
    /\ roots' = Tail(roots)
    /\ IsrEnter(Head(roots))
    /\ UNCHANGED << prog, stage, irq_analyzed, irq_engine, program_isr_info,
                    lsVars, program_lock_set, ldgVars, tf >>

\* analyze_function_interrupt_set whose loop over the callees enters a
\* callee that is on the recursion stack.
IsrVisitCalleeNoStackCheck ==
    /\ stage = "isr"
    /\ frames # << >>
    /\ ~irq_engine.active
    /\ Head(frames).todo # {}
    /\ \E c \in Head(frames).todo :
          LET rest == << [Head(frames) EXCEPT !.todo = @ \ {c}] >> \o Tail(frames)
          IN IF c \in DOMAIN irq_analyzed \/ c \notin MirAvailable(prog)
             THEN /\ frames' = rest
                  /\ UNCHANGED recursion_stack
             ELSE /\ recursion_stack' = recursion_stack \cup {c}
                  /\ frames' = << [func |-> c, todo |-> Callees(prog, c)] >> \o rest
    /\ UNCHANGED << prog, stage, roots, irq_analyzed, irq_engine,
                    program_isr_info, lsVars, program_lock_set, ldgVars, tf >>

\* analyze_function_interrupt_set: the loop over the callees analyses the
\* next callee first (the callees are enumerated in no specified order).
IsrVisitCallee ==
    /\ stage = "isr"
    /\ frames # << >>
    /\ ~irq_engine.active
    /\ Head(frames).todo # {}
    /\ \E c \in Head(frames).todo :
          LET rest == << [Head(frames) EXCEPT !.todo = @ \ {c}] >> \o Tail(frames)
          IN IF c \in DOMAIN irq_analyzed \/ c \in recursion_stack
                \/ c \notin MirAvailable(prog)
             THEN /\ frames' = rest
                  /\ UNCHANGED recursion_stack
             ELSE /\ recursion_stack' = recursion_stack \cup {c}
                  /\ frames' = << [func |-> c, todo |-> Callees(prog, c)] >> \o rest
    /\ UNCHANGED << prog, stage, roots, irq_analyzed, irq_engine,
                    program_isr_info, lsVars, program_lock_set, ldgVars, tf >>

\* FuncIsrAnalyzer::new(..).into_engine(): every entry set is bottom_value,
\* initialize_start_block sets START_BLOCK to IrqState::new(), and every
\* block is queued in reverse postorder.
IsrStartEngine ==
    /\ stage = "isr"
    /\ frames # << >>
    /\ ~irq_engine.active
    /\ Head(frames).todo = {}
    /\ LET f == Head(frames).func
       IN irq_engine' =
            [active |-> TRUE,
             entry_sets |-> [b \in Blocks(prog, f) |-> "Bottom"],
             dirty |-> SetToSeq(Blocks(prog, f))]
    /\ UNCHANGED << prog, stage, roots, frames, recursion_stack, irq_analyzed,
                    program_isr_info, lsVars, program_lock_set, ldgVars, tf >>

\* iterate_to_fixpoint, one block: the block's entry set goes through the
\* terminator effect and is joined into the entry set of every successor;
\* a successor whose entry set changed is queued again.
IrqEngineStep ==
    /\ stage = "isr"
    /\ irq_engine.active
    /\ irq_engine.dirty # << >>
    /\ LET f == Head(frames).func
           b == Head(irq_engine.dirty)
           out == IrqBlockExit(prog, f, b, irq_engine.entry_sets[b], irq_analyzed)
           succ == prog.body[f][b].succ
           new_entry == [x \in Blocks(prog, f) |->
                            IF x \in succ
                            THEN IrqJoin(irq_engine.entry_sets[x], out)
                            ELSE irq_engine.entry_sets[x]]
           changed == { x \in succ : new_entry[x] # irq_engine.entry_sets[x] }
           rest == Tail(irq_engine.dirty)
       IN irq_engine' =
            [irq_engine EXCEPT
                !.entry_sets = new_entry,
                !.dirty = rest \o SetToSeq({ x \in changed : ~InSeq(x, rest) })]
    /\ UNCHANGED << prog, stage, roots, frames, recursion_stack, irq_analyzed,
                    program_isr_info, lsVars, program_lock_set, ldgVars, tf >>

\* The FuncIrqInfo with the end state of every block, Return or not,
\* joined into exit_irq_state.
FuncIrqInfoAllBlocks(p, f, entry_sets, analyzed) ==
    LET post == [b \in Blocks(p, f) |-> IrqBlockExit(p, f, b, entry_sets[b], analyzed)]
    IN [exit_irq_state |->
            IrqJoinAll("Bottom", [i \in 1 .. Len(p.body[f]) |-> post[i]]),
        post_bb_irq_states |-> post,
        pre_bb_irq_states |-> entry_sets]

\* The FuncIrqInfo analyze_function_interrupt_set builds from the results
\* cursor: the state at the start and at the end of every block, and the join
\* of the end states of the blocks that end in Return.
FuncIrqInfo(p, f, entry_sets, analyzed) ==
    LET post == [b \in Blocks(p, f) |-> IrqBlockExit(p, f, b, entry_sets[b], analyzed)]
        returns == { b \in Blocks(p, f) : p.body[f][b].kind = "Return" }
    IN [exit_irq_state |->
            IrqJoinAll("Bottom", [i \in 1 .. Cardinality(returns) |->
                                     post[SetToSeq(returns)[i]]]),
        post_bb_irq_states |-> post,
        pre_bb_irq_states |-> entry_sets]

\* analyze_function_interrupt_set after the fixpoint: the result is cached
\* and the function leaves the recursion stack.
IsrFinishFunction ==
    /\ stage = "isr"
    /\ irq_engine.active
    /\ irq_engine.dirty = << >>
    /\ LET f == Head(frames).func
       IN /\ irq_analyzed' =
                (f :> FuncIrqInfo(prog, f, irq_engine.entry_sets, irq_analyzed))
                @@ irq_analyzed
          /\ recursion_stack' = recursion_stack \ {f}
    /\ frames' = Tail(frames)
    /\ irq_engine' = IdleEngine
    /\ UNCHANGED << prog, stage, roots, program_isr_info, lsVars,
                    program_lock_set, ldgVars, tf >>


\* analyze_interrupt_set after the loop: the results are saved to
\* program_isr_info and IsrAnalyzer::run returns; LockSetAnalyzer::run is
\* next (the lock collector's result is the program's lockmap).
IsrSaveResults ==
    /\ stage = "isr"
    /\ roots = << >>
    /\ frames = << >>
    /\ program_isr_info' = [program_isr_info EXCEPT !.func_irq_infos = irq_analyzed]
    /\ stage' = "seed"
    /\ UNCHANGED << prog, isrVars, lsVars, program_lock_set, ldgVars, tf >>

(***************************************************************************)
(* Stage 2: LockSetAnalyzer (lockset_analyzer.rs)                          *)
(***************************************************************************)

\* The factor of the iteration cap.
IterationLimitFactor == 10

\* FuncLockSetAnalyzer::new with a func_lock_info that always starts from an
\* empty exit_lockset.
NewFuncLockInfoFresh(f, entry_lockset, analyzed) ==
    [entry_lockset |-> entry_lockset, exit_lockset |-> NewLockSet,
     pre_bb_locksets |-> EmptyMap, lock_operations |-> {}]

\* FuncLockSetAnalyzer::new: func_lock_info is a clone of the cached result
\* of the function when there is one, and otherwise a new FunctionLockSet
\* with the given entry_lockset and an empty exit_lockset.
NewFuncLockInfo(f, entry_lockset, analyzed) ==
    IF f \in DOMAIN analyzed THEN analyzed[f]
    ELSE [entry_lockset |-> entry_lockset, exit_lockset |-> NewLockSet,
          pre_bb_locksets |-> EmptyMap, lock_operations |-> {}]

\* impl JoinSemiLattice for LockSet: join is merge
LockSetJoin(self, other) == Merge(self, other)

\* LockSetAnalyzer::run: one work item (f, empty lockset) per body owner of
\* kind Fn, and the iteration cap.
LsSeed ==
    /\ stage = "seed"
    /\ worklist' = [i \in 1 .. Len(BodyOwners(prog)) |->
                       [func |-> BodyOwners(prog)[i], entry |-> NewLockSet]]
    /\ iteration_limit' = IterationLimitFactor * Len(BodyOwners(prog))
    /\ stage' = "lockset"
    /\ UNCHANGED << prog, isrVars, program_isr_info, analyzed_functions,
                    func_analyzer, program_lock_set, ldgVars, tf >>

\* LockSetAnalyzer::run, the pop of a work item, with the budget charged
\* only for the items whose function has a lock map.
LsPopSkipFree ==
    /\ stage = "lockset"
    /\ ~func_analyzer.active
    /\ iteration_limit > 0
    /\ worklist # << >>
    /\ worklist' = Tail(worklist)
    /\ LET f == Head(worklist).func
           e == Head(worklist).entry
       IN IF f \notin DOMAIN prog.lockmap
          THEN UNCHANGED << func_analyzer, iteration_limit >>
          ELSE /\ iteration_limit' = iteration_limit - 1
               /\ func_analyzer' =
                    [active |-> TRUE, func_def_id |-> f, entry_lockset |-> e,
                     func_lock_info |-> NewFuncLockInfo(f, e, analyzed_functions),
                     entry_sets |-> [b \in Blocks(prog, f) |->
                                        IF b = StartBlock THEN e ELSE NewLockSet],
                     dirty |-> SetToSeq(Blocks(prog, f)),
                     callsites |-> {}]
    /\ UNCHANGED << prog, stage, isrVars, program_isr_info, analyzed_functions,
                    program_lock_set, ldgVars, tf >>

\* LockSetAnalyzer::run, the head of one iteration, with the item taken
\* from the back of the queue.
LsPopBack ==
    /\ stage = "lockset"
    /\ ~func_analyzer.active
    /\ iteration_limit > 0
    /\ worklist # << >>
    /\ iteration_limit' = iteration_limit - 1
    /\ worklist' = SubSeq(worklist, 1, Len(worklist) - 1)
    /\ LET f == worklist[Len(worklist)].func
           e == worklist[Len(worklist)].entry
       IN IF f \notin DOMAIN prog.lockmap
          THEN UNCHANGED func_analyzer
          ELSE func_analyzer' =
                 [active |-> TRUE, func_def_id |-> f, entry_lockset |-> e,
                  func_lock_info |-> NewFuncLockInfo(f, e, analyzed_functions),
                  entry_sets |-> [b \in Blocks(prog, f) |->
                                     IF b = StartBlock THEN e ELSE NewLockSet],
                  dirty |-> SetToSeq(Blocks(prog, f)),
                  callsites |-> {}]
    /\ UNCHANGED << prog, stage, isrVars, program_isr_info, analyzed_functions,
                    program_lock_set, ldgVars, tf >>

\* LockSetAnalyzer::run, the head of one iteration: the budget is charged,
\* the front item is popped; a function without lock map is skipped, any
\* other gets a FuncLockSetAnalyzer whose engine starts with the entry
\* lockset at START_BLOCK and bottom everywhere else.
LsPop ==
    /\ stage = "lockset"
    /\ ~func_analyzer.active
    /\ iteration_limit > 0
    /\ worklist # << >>
    /\ iteration_limit' = iteration_limit - 1
    /\ worklist' = Tail(worklist)
    /\ LET f == Head(worklist).func
           e == Head(worklist).entry
       IN IF f \notin DOMAIN prog.lockmap
          THEN UNCHANGED func_analyzer
          ELSE func_analyzer' =
                 [active |-> TRUE, func_def_id |-> f, entry_lockset |-> e,
                  func_lock_info |-> NewFuncLockInfo(f, e, analyzed_functions),
                  entry_sets |-> [b \in Blocks(prog, f) |->
                                     IF b = StartBlock THEN e ELSE NewLockSet],
                  dirty |-> SetToSeq(Blocks(prog, f)),
                  callsites |-> {}]
    /\ UNCHANGED << prog, stage, isrVars, program_isr_info, analyzed_functions,
                    program_lock_set, ldgVars, tf >>

\* The transfer of block b of f under the cache `analyzed`.
LockBlockExit(p, f, b, state, analyzed) ==
    LockApplyTerminatorEffect(p.body[f][b], state, p.lockmap[f], analyzed)

\* iterate_to_fixpoint, one block of FuncLockSetAnalyzerInner: a resolved
\* Call records its call site, a Return merges the state into
\* func_lock_info.exit_lockset, and the state after the terminator is joined
\* into the entry set of every successor.
LsEngineStep ==
    /\ stage = "lockset"
    /\ func_analyzer.active
    /\ func_analyzer.dirty # << >>
    /\ LET f == func_analyzer.func_def_id
           b == Head(func_analyzer.dirty)
           t == prog.body[f][b]
           state == func_analyzer.entry_sets[b]
           out == LockBlockExit(prog, f, b, state, analyzed_functions)
           new_entry == [x \in Blocks(prog, f) |->
                            IF x \in t.succ
                            THEN LockSetJoin(func_analyzer.entry_sets[x], out)
                            ELSE func_analyzer.entry_sets[x]]
           changed == { x \in t.succ : new_entry[x] # func_analyzer.entry_sets[x] }
           rest == Tail(func_analyzer.dirty)
       IN func_analyzer' =
            [func_analyzer EXCEPT
                !.entry_sets = new_entry,
                !.dirty = rest \o SetToSeq({ x \in changed : ~InSeq(x, rest) }),
                !.callsites = IF t.kind = "Call" /\ t.callee # Unresolved
                              THEN @ \cup { << b, t.callee >> } ELSE @,
                !.func_lock_info.exit_lockset =
                              IF t.kind = "Return" THEN Merge(@, state) ELSE @]
    /\ UNCHANGED << prog, stage, isrVars, program_isr_info, worklist,
                    iteration_limit, analyzed_functions, program_lock_set,
                    ldgVars, tf >>

\* The lockset a callee's cached result is compared with in
\* FuncLockSetAnalyzer::run: the callee's cached exit_lockset.
OldEntrySet(callee, analyzed) ==
    IF callee \in DOMAIN analyzed THEN analyzed[callee].exit_lockset
    ELSE NewLockSet

\* FuncLockSetAnalyzer::exit_changed that never sees a change.
ExitChangedNever(f, func_lock_info, analyzed) == FALSE

\* FuncLockSetAnalyzer::exit_changed that always sees a change.
ExitChangedAlways(f, func_lock_info, analyzed) == TRUE

\* FuncLockSetAnalyzer::exit_changed
ExitChanged(f, func_lock_info, analyzed) ==
    IF f \in DOMAIN analyzed
    THEN analyzed[f].exit_lockset # func_lock_info.exit_lockset
    ELSE TRUE

\* The per-block locksets the LDG constructor reads from a FunctionLockSet:
\* the lockset at the start of every block, as the results cursor gives it.
RecordPreBbLocksets(func_lock_info, entry_sets) ==
    [func_lock_info EXCEPT !.pre_bb_locksets = entry_sets]

\* FuncLockSetAnalyzer::result
Result(fa) == RecordPreBbLocksets(fa.func_lock_info, fa.entry_sets)

\* LockSetAnalyzer::run, the rest of the iteration, with a save that keeps
\* the result of this function only.  In the code influenced_callees is
\* computed from the call sites (one entry per callee, the last call site
\* the HashMap iteration meets wins), the callers are queued with their
\* cached entry lockset when the exit changed, the influenced callees are
\* queued, and the result is saved.
LsFinishIterationForgets ==
    /\ stage = "lockset"
    /\ func_analyzer.active
    /\ func_analyzer.dirty = << >>
    /\ LET f == func_analyzer.func_def_id
           differing == { cs \in func_analyzer.callsites :
                            func_analyzer.entry_sets[cs[1]]
                              # OldEntrySet(cs[2], analyzed_functions) }
           influenced == { cs[2] : cs \in differing }
           callers == IF ExitChanged(f, func_analyzer.func_lock_info, analyzed_functions)
                      THEN Callers(prog, f) ELSE {}
           caller_item(c) ==
               [func |-> c,
                entry |-> IF c \in DOMAIN analyzed_functions
                          THEN analyzed_functions[c].entry_lockset
                          ELSE NewLockSet]
       IN \E co \in Orders(callers), io \in Orders(influenced) :
          \E pick \in [influenced -> differing] :
             /\ \A c \in influenced : pick[c][2] = c
             /\ worklist' = worklist
                   \o [i \in 1 .. Len(co) |-> caller_item(co[i])]
                   \o [i \in 1 .. Len(io) |->
                         [func |-> io[i],
                          entry |-> func_analyzer.entry_sets[pick[io[i]][1]]]]
             /\ analyzed_functions' = (f :> Result(func_analyzer))
    /\ func_analyzer' = IdleAnalyzer
    /\ UNCHANGED << prog, stage, isrVars, program_isr_info, iteration_limit,
                    program_lock_set, ldgVars, tf >>

\* LockSetAnalyzer::run, the rest of the iteration: influenced_callees is
\* computed from the call sites (one entry per callee, the last call site
\* the HashMap iteration meets wins), the callers are queued with their
\* cached entry lockset when the exit changed, the influenced callees are
\* queued, and the result is saved.
LsFinishIteration ==
    /\ stage = "lockset"
    /\ func_analyzer.active
    /\ func_analyzer.dirty = << >>
    /\ LET f == func_analyzer.func_def_id
           differing == { cs \in func_analyzer.callsites :
                            func_analyzer.entry_sets[cs[1]]
                              # OldEntrySet(cs[2], analyzed_functions) }
           influenced == { cs[2] : cs \in differing }
           callers == IF ExitChanged(f, func_analyzer.func_lock_info, analyzed_functions)
                      THEN Callers(prog, f) ELSE {}
           caller_item(c) ==
               [func |-> c,
                entry |-> IF c \in DOMAIN analyzed_functions
                          THEN analyzed_functions[c].entry_lockset
                          ELSE NewLockSet]
       IN \E co \in Orders(callers), io \in Orders(influenced) :
          \E pick \in [influenced -> differing] :
             /\ \A c \in influenced : pick[c][2] = c
             /\ worklist' = worklist
                   \o [i \in 1 .. Len(co) |-> caller_item(co[i])]
                   \o [i \in 1 .. Len(io) |->
                         [func |-> io[i],
                          entry |-> func_analyzer.entry_sets[pick[io[i]][1]]]]
             /\ analyzed_functions' = (f :> Result(func_analyzer)) @@ analyzed_functions
    /\ func_analyzer' = IdleAnalyzer
    /\ UNCHANGED << prog, stage, isrVars, program_isr_info, iteration_limit,
                    program_lock_set, ldgVars, tf >>

\* LockSetAnalyzer::run after the loop: the cache is returned as the
\* ProgramLockSet; LDGConstructor::run is next.
LsReturn ==
    /\ stage = "lockset"
    /\ ~func_analyzer.active
    /\ ~(iteration_limit > 0 /\ worklist # << >>)
    /\ program_lock_set' = analyzed_functions
    /\ stage' = "ldg"
    /\ ldg' = [IdleLdg EXCEPT !.todo = BodyOwners(prog)]
    /\ UNCHANGED << prog, isrVars, program_isr_info, lsVars, graph, report, tf >>

\* What LockSetAnalyzer::run tells the user when its loop is over, given the
\* budget and the queue it stopped with: the loop is followed by the return
\* of the cache alone, with no message and no flag in the result.
LockSetRunWarnings(limit, queue) == {}


(***************************************************************************)
(* Stage 3: LDGConstructor (ldg_constructor.rs)                            *)
(***************************************************************************)

\* CallSite: the calling function and the block of the call.
CallSite(f, b) == << f, b >>
\* LockSite { lock, site }
LockSite(lock, site) == [lock |-> lock, site |-> site]

\* extract_locksite_pairs, caller_locksites, with the filter on the lock
\* state left out: every recorded site of every lock.
HeldLockSitesAnyState(lockset) ==
    UNION { { LockSite(l, s) : s \in lockset.lock_sites[l] } : l \in Locks }

\* extract_locksite_pairs, caller_locksites: the recorded call sites of the
\* locks whose state in the lockset is MayHold.
HeldLockSites(lockset) ==
    UNION { { LockSite(l, s) : s \in lockset.lock_sites[l] }
            : l \in { k \in Locks : lockset.lock_states[k] = "MayHold" } }

\* extract_locksite_pairs: every pair (lock operation of the callee or ISR,
\* held lock site of the caller).
ExtractLocksitePairs(callsite_lockset, callee_lock_operations) ==
    { << c, h >> : c \in callee_lock_operations,
                   h \in HeldLockSites(callsite_lockset) }

\* NormalEdgeCollector::visit_terminator at block b of f.
NormalVisitTerminator(p, f, b, pls) ==
    IF f \notin DOMAIN pls THEN {}
    ELSE LET t == p.body[f][b]
         IN IF t.kind = "Call" /\ t.callee # Unresolved /\ t.callee \in DOMAIN pls
            THEN ExtractLocksitePairs(pls[f].pre_bb_locksets[b],
                                      pls[t.callee].lock_operations)
            ELSE {}

\* NormalEdgeCollector::collect reading, for the lock operations of f, the
\* lockset after the acquiring call: the lock acquired there is MayHold and
\* has the site of the call.
NormalCollectAfterCall(p, f, pls) ==
    UNION { NormalVisitTerminator(p, f, b, pls) : b \in Blocks(p, f) }
    \cup
    ( IF f \notin DOMAIN pls THEN {}
      ELSE UNION { IF op.site[2] \in DOMAIN pls[f].pre_bb_locksets
                   THEN { << op, h >> :
                          h \in HeldLockSites(
                                  [pls[f].pre_bb_locksets[op.site[2]] EXCEPT
                                     !.lock_states[op.lock] = "MayHold",
                                     !.lock_sites[op.lock] = @ \cup { op.site }]) }
                   ELSE {}
                   : op \in pls[f].lock_operations } )

\* NormalEdgeCollector::collect: the pairs of every terminator of the body,
\* then, for every lock operation of f itself, the pairs with the sites held
\* at the start of the operation's block.
NormalCollect(p, f, pls) ==
    UNION { NormalVisitTerminator(p, f, b, pls) : b \in Blocks(p, f) }
    \cup
    ( IF f \notin DOMAIN pls THEN {}
      ELSE UNION { IF op.site[2] \in DOMAIN pls[f].pre_bb_locksets
                   THEN { << op, h >> :
                          h \in HeldLockSites(pls[f].pre_bb_locksets[op.site[2]]) }
                   ELSE {}
                   : op \in pls[f].lock_operations } )

\* InterruptEdgeCollector::visit_terminator at block b of f with the check
\* of the IrqState left out.
InterruptVisitTerminatorNoIrqCheck(p, f, b, pls, pii) ==
    IF f \notin DOMAIN pii.func_irq_infos THEN {}
    ELSE IF f \notin DOMAIN pls THEN {}
    ELSE UNION { IF i \in DOMAIN pls
                 THEN ExtractLocksitePairs(pls[f].pre_bb_locksets[b],
                                           pls[i].lock_operations)
                 ELSE {}
                 : i \in pii.isr_funcs }

\* InterruptEdgeCollector::visit_terminator at block b of f that collects
\* only where the IrqState is MayBeEnabled, Bottom counting as disabled.
InterruptVisitTerminatorOnlyEnabled(p, f, b, pls, pii) ==
    IF f \notin DOMAIN pii.func_irq_infos THEN {}
    ELSE IF pii.func_irq_infos[f].pre_bb_irq_states[b] # "MayBeEnabled" THEN {}
    ELSE IF f \notin DOMAIN pls THEN {}
    ELSE UNION { IF i \in DOMAIN pls
                 THEN ExtractLocksitePairs(pls[f].pre_bb_locksets[b],
                                           pls[i].lock_operations)
                 ELSE {}
                 : i \in pii.isr_funcs }

\* InterruptEdgeCollector::visit_terminator at block b of f: nothing when f
\* has no FuncIrqInfo, when the IrqState at the start of the block is
\* MustBeDisabled or when f has no lockset; otherwise the pairs with the lock
\* operations of every ISR function that has a lockset.
InterruptVisitTerminator(p, f, b, pls, pii) ==
    IF f \notin DOMAIN pii.func_irq_infos THEN {}
    ELSE IF pii.func_irq_infos[f].pre_bb_irq_states[b] = "MustBeDisabled" THEN {}
    ELSE IF f \notin DOMAIN pls THEN {}
    ELSE UNION { IF i \in DOMAIN pls
                 THEN ExtractLocksitePairs(pls[f].pre_bb_locksets[b],
                                           pls[i].lock_operations)
                 ELSE {}
                 : i \in pii.isr_funcs }

\* LDGConstructor::run, one body owner: NormalEdgeCollector::collect.
LdgNormalCollect ==
    /\ stage = "ldg"
    /\ ldg.phase = "idle"
    /\ ldg.todo # << >>
    /\ ldg' = [ldg EXCEPT
                 !.func = Head(ldg.todo),
                 !.phase = "intr",
                 !.block = 1,
                 !.at = 0,
                 !.normal_edges = NormalCollect(prog, Head(ldg.todo), program_lock_set),
                 !.intr_edges = {},
                 !.here = {}]
    /\ UNCHANGED << prog, stage, isrVars, program_isr_info, lsVars,
                    program_lock_set, graph, report, tf >>

\* InterruptEdgeCollector::collect, one terminator of the body.
LdgInterruptVisit ==
    /\ stage = "ldg"
    /\ ldg.phase = "intr"
    /\ ldg.block \in Blocks(prog, ldg.func)
    /\ LET pairs == InterruptVisitTerminator(prog, ldg.func, ldg.block,
                                             program_lock_set, program_isr_info)
       IN ldg' = [ldg EXCEPT
                    !.at = ldg.block,
                    !.block = ldg.block + 1,
                    !.here = pairs,
                    !.intr_edges = @ \cup pairs]
    /\ UNCHANGED << prog, stage, isrVars, program_isr_info, lsVars,
                    program_lock_set, graph, report, tf >>

\* LDGConstructor::run, the end of one round of the loop: the two sets of
\* pairs are logged; self.graph is not touched.
LdgLogEdges ==
    /\ stage = "ldg"
    /\ ldg.phase = "intr"
    /\ ldg.block \notin Blocks(prog, ldg.func)
    /\ ldg' = [ldg EXCEPT !.todo = Tail(ldg.todo), !.phase = "idle"]
    /\ UNCHANGED << prog, stage, isrVars, program_isr_info, lsVars,
                    program_lock_set, graph, report, tf >>

\* LDGConstructor::run returns self.graph.clone(); DeadlockReporter is next.
LdgReturn ==
    /\ stage = "ldg"
    /\ ldg.phase = "idle"
    /\ ldg.todo = << >>
    /\ stage' = "report"
    /\ UNCHANGED << prog, isrVars, program_isr_info, lsVars, program_lock_set,
                    ldgVars, tf >>

(***************************************************************************)
(* Stage 4: DeadlockReporter (deadlock_reporter.rs)                        *)
(***************************************************************************)

\* Graph::find_edge(a, b): the edge from a to b that was added last.
FindEdge(g, a, b) ==
    LET idx == { i \in 1 .. Len(g.edges) :
                   g.edges[i].source = a /\ g.edges[i].target = b }
    IN IF idx = {} THEN 0 ELSE CHOOSE i \in idx : \A j \in idx : j <= i

\* self_cycle_node: the nodes that have themselves as a neighbor and whose
\* edge found by find_edge(node, node) is an Interrupt edge.
SelfCycleNode(g) ==
    { << n, FindEdge(g, n, n) >> :
        n \in { m \in g.nodes :
                  /\ FindEdge(g, m, m) # 0
                  /\ g.edges[FindEdge(g, m, m)].edge_type = "Interrupt" } }

\* DeadlockReporter::run: one "Possible Deadlock" per self-cycle node.
ReporterRun ==
    /\ stage = "report"
    /\ report' = SelfCycleNode(graph)
    /\ stage' = "done"
    /\ UNCHANGED << prog, isrVars, program_isr_info, lsVars, program_lock_set,
                    ldg, graph, tf >>

(***************************************************************************)
(* The pipeline DeadlockDetector::run (mod.rs)                             *)
(***************************************************************************)

Next ==
    \/ IsrNextRoot
    \/ IsrVisitCallee
    \/ IsrStartEngine
    \/ IrqEngineStep
    \/ IsrFinishFunction
    \/ IsrSaveResults
    \/ LsSeed
    \/ LsPop
    \/ LsEngineStep
    \/ LsFinishIteration
    \/ LsReturn
    \/ LdgNormalCollect
    \/ LdgInterruptVisit
    \/ LdgLogEdges
    \/ LdgReturn
    \/ ReporterRun

Spec == Init /\ [][Next]_vars

\* The pipeline as the sequential program it is: a step that can be taken
\* is taken.
SpecFair == Init /\ [][Next]_vars /\ WF_vars(Next)


(***************************************************************************)
(* The transfer functions on their own: one terminator applied to two      *)
(* states under one cache                                                  *)
(***************************************************************************)

\* The idle pipeline around a check of one component.
IdlePipeline(p, s) ==
    /\ prog = p
    /\ stage = s
    /\ roots = << >>
    /\ frames = << >>
    /\ recursion_stack = {}
    /\ irq_analyzed = EmptyMap
    /\ irq_engine = IdleEngine
    /\ worklist = << >>
    /\ iteration_limit = 0
    /\ analyzed_functions = EmptyMap
    /\ func_analyzer = IdleAnalyzer
    /\ graph = NewGraph
    /\ report = {}

\* The locksets the transfer functions are applied to: any state, or none,
\* for each lock, and for A any set of recorded sites out of one.
TransferLockSets ==
    { [lock_states |-> st, lock_sites |-> [l \in Locks |-> IF l = "A" THEN si ELSE {}]]
      : st \in [Locks -> LockStates \cup {Absent}],
        si \in SUBSET { CallSite(1, 1) } }

\* The terminators of the lockset analysis: calls of an unresolved callee
\* (0), a callee with a cached result (2) and one without (3), into either
\* guard local or an ordinary local; drops of the same locals; Return; Goto.
LockTerminators ==
    { Call(c, d, {2}) : c \in {Unresolved, 2, 3}, d \in {1, 2, Tmp} }
    \cup { Drop(d, {2}) : d \in {1, 2, Tmp} }
    \cup { Return, Goto({2}) }

\* The exit locksets the cache holds for the callee: any state, or none, for
\* each lock, a lock that may be held having its site in the callee.
CachedExitLockSets ==
    { [lock_states |-> st,
       lock_sites |-> [l \in Locks |-> IF st[l] = "MayHold" THEN { CallSite(2, 1) } ELSE {}]]
      : st \in [Locks -> LockStates \cup {Absent}] }

TransferLockMaps == { <<"A">>, <<"A", "B">> }

\* The terminators of the IrqState analysis: calls of an unresolved callee,
\* an enable API (2), a disable API (3), a function configured as both (4),
\* a function with a cached result (5), one without (6), a cached callee
\* without MIR (7) and an external callee; a Drop; Return; Goto.
IrqTerminators ==
    { Call(c, Tmp, {2}) : c \in {Unresolved, 2, 3, 4, 5, 6, 7, Ext} }
    \cup { Drop(1, {2}), Return, Goto({2}) }

\* The lattice orders, as the specification states them.
IrqLeq(a, b) == a = "Bottom" \/ a = b \/ b = "MayBeEnabled"
LockStateLeq(a, b) == a \in {"Bottom", Absent} \/ a = b \/ b = "MayHold"
LockSetLeq(s, t) ==
    \A l \in Locks :
        /\ LockStateLeq(s.lock_states[l], t.lock_states[l])
        /\ s.lock_sites[l] \subseteq t.lock_sites[l]

InitTransfer ==
    /\ IdlePipeline(ProgS1, "transfer")
    /\ program_isr_info = [isr_funcs |-> {}, func_irq_infos |-> EmptyMap]
    /\ program_lock_set = EmptyMap
    /\ ldg = IdleLdg
    /\ tf = NoTransfer

\* apply_terminator_effect of the lockset analysis on s1 and on s2 >= s1,
\* the cache holding `cexit` as the exit lockset of callee 2; for a Return
\* the exit lockset accumulated so far is `cexit`.
ApplyLockTransfer ==
    /\ stage = "transfer"
    /\ tf.kind = "none"
    /\ \E t \in LockTerminators, lockmap \in TransferLockMaps,
          s1 \in TransferLockSets, s2 \in TransferLockSets,
          cexit \in CachedExitLockSets :
          /\ LockSetLeq(s1, s2)
          /\ LET analyzed == (2 :> [exit_lockset |-> cexit])
             IN tf' = [kind |-> "lock", t |-> t, lockmap |-> lockmap,
                       s1 |-> s1, s2 |-> s2, cexit |-> cexit,
                       r1 |-> LockApplyTerminatorEffect(t, s1, lockmap, analyzed),
                       r2 |-> LockApplyTerminatorEffect(t, s2, lockmap, analyzed),
                       e1 |-> IF t.kind = "Return" THEN Merge(cexit, s1) ELSE cexit,
                       e2 |-> IF t.kind = "Return" THEN Merge(cexit, s2) ELSE cexit]
    /\ UNCHANGED << prog, stage, isrVars, program_isr_info, lsVars,
                    program_lock_set, ldgVars >>

\* apply_terminator_effect of the IrqState analysis on s1 and on s2 >= s1,
\* the cache holding `cexit` as the return state of callees 5 and 7.
ApplyIrqTransfer ==
    /\ stage = "transfer"
    /\ tf.kind = "none"
    /\ \E t \in IrqTerminators, s1 \in IrqStates, s2 \in IrqStates,
          cexit \in IrqStates :
          /\ IrqLeq(s1, s2)
          /\ LET analyzed == (5 :> [exit_irq_state |-> cexit])
                             @@ (7 :> [exit_irq_state |-> cexit])
                 enable == {2, 4}
                 disable == {3, 4}
                 mir == {2, 3, 4, 5, 6}
             IN tf' = [kind |-> "irq", t |-> t, s1 |-> s1, s2 |-> s2,
                       cexit |-> cexit,
                       r1 |-> IrqApplyTerminatorEffect(t, s1, enable, disable, mir, analyzed),
                       r2 |-> IrqApplyTerminatorEffect(t, s2, enable, disable, mir, analyzed)]
    /\ UNCHANGED << prog, stage, isrVars, program_isr_info, lsVars,
                    program_lock_set, ldgVars >>

NextTransfer == ApplyLockTransfer \/ ApplyIrqTransfer

SpecTransfer == InitTransfer /\ [][NextTransfer]_vars

\* C9: every transfer function is monotone: for s1 <= s2 the state after the
\* terminator (and, for a Return, the exit lockset it is merged into) for s1
\* is <= the one for s2, the cache held fixed.
TransferMonotone ==
    /\ tf.kind = "lock" => LockSetLeq(tf.r1, tf.r2) /\ LockSetLeq(tf.e1, tf.e2)
    /\ tf.kind = "irq" => IrqLeq(tf.r1, tf.r2)

\* C9 witness: a lock-acquiring Call applied to two different states, and a
\* call of a cached callee applied in the IrqState analysis is covered by
\* the same formula.
TransferMonotoneWitness ==
    /\ tf.kind = "lock"
    /\ tf.t.kind = "Call" /\ tf.t.callee = 2 /\ tf.t.local = 1
    /\ tf.s1.lock_states["A"] = "MustNotHold"
    /\ tf.s2.lock_states["A"] = "MayHold"
    /\ tf.r1.lock_states["A"] = "MayHold"

\* C7: a Drop of a guard local mapped to lock L leaves L MustNotHold whatever
\* its state was, and leaves the state of every other lock as it was.
DropClearsGuard ==
    (tf.kind = "lock" /\ tf.t.kind = "Drop" /\ tf.t.local \in DOMAIN tf.lockmap)
    => LET L == tf.lockmap[tf.t.local]
       IN /\ tf.r1.lock_states[L] = "MustNotHold"
          /\ tf.r2.lock_states[L] = "MustNotHold"
          /\ \A l \in Locks \ {L} :
                /\ tf.r1.lock_states[l] = tf.s1.lock_states[l]
                /\ tf.r2.lock_states[l] = tf.s2.lock_states[l]

\* C7 witness: the guard of B is dropped while B is absent from the lockset
\* and A is MustHold; afterwards B is MustNotHold and A still MustHold.
DropClearsGuardWitness ==
    /\ tf.kind = "lock" /\ tf.t.kind = "Drop" /\ tf.t.local = 2
    /\ tf.lockmap = <<"A", "B">>
    /\ tf.s1.lock_states["B"] = Absent
    /\ tf.s1.lock_states["A"] = "MustHold"
    /\ tf.r1.lock_states["B"] = "MustNotHold"
    /\ tf.r1.lock_states["A"] = "MustHold"


(***************************************************************************)
(* LDGConstructor and DeadlockReporter on their own: any ProgramLockSet    *)
(* and ProgramIsrInfo of a crate of two functions                          *)
(***************************************************************************)

\* The crate: F (1) calls G (2) and returns; G returns.
ProgLdg ==
    Program("Ldg", << << Call(2, Tmp, {2}), Return >>, OnlyReturn >>,
            (1 :> <<"A", "B">>) @@ (2 :> <<"A", "B">>), {}, {}, {})

\* The locksets at the blocks of F: any state, or none, for A with any set
\* of sites out of one; B absent, or MayHold with its site.
LdgLockSets ==
    { [lock_states |-> ("A" :> a) @@ ("B" :> IF b THEN "MayHold" ELSE Absent),
       lock_sites |-> ("A" :> si) @@ ("B" :> IF b THEN { CallSite(1, 2) } ELSE {})]
      : a \in LockStates \cup {Absent}, si \in SUBSET { CallSite(1, 1) },
        b \in BOOLEAN }

\* The lock operations G may have.
LdgLockOperations ==
    { {}, { LockSite("A", CallSite(2, 1)) },
      { LockSite("A", CallSite(2, 1)), LockSite("B", CallSite(2, 1)) } }

\* A FunctionLockSet with the same lockset at the start of every block.
LdgFunctionLockSet(f, lockset, ops) ==
    [entry_lockset |-> NewLockSet, exit_lockset |-> NewLockSet,
     pre_bb_locksets |-> [b \in Blocks(ProgLdg, f) |-> lockset],
     lock_operations |-> ops]

\* A FuncIrqInfo with the given states at the start of the blocks.
LdgFuncIrqInfo(pre) ==
    [exit_irq_state |-> pre[Len(pre)], post_bb_irq_states |-> pre,
     pre_bb_irq_states |-> pre]

Restrict(m, D) == [x \in D |-> m[x]]

InitLDG ==
    /\ IdlePipeline(ProgLdg, "ldg")
    /\ tf = NoTransfer
    /\ ldg = [IdleLdg EXCEPT !.todo = BodyOwners(ProgLdg)]
    /\ \E lsF \in LdgLockSets, opsF \in SUBSET { LockSite("A", CallSite(1, 1)) },
          opsG \in LdgLockOperations, gHolds \in BOOLEAN,
          dom \in { {1, 2}, {1}, {2} } :
          program_lock_set =
            Restrict((1 :> LdgFunctionLockSet(1, lsF, opsF))
                     @@ (2 :> LdgFunctionLockSet(2,
                                IF gHolds
                                THEN [NewLockSet EXCEPT
                                        !.lock_states["A"] = "MayHold",
                                        !.lock_sites["A"] = { CallSite(2, 1) }]
                                ELSE NewLockSet, opsG)), dom)
    /\ \E i1 \in IrqStates, i2 \in {"MustBeDisabled", "MayBeEnabled"},
          iG \in {"MustBeDisabled", "MayBeEnabled"},
          isr \in { {}, {2}, {1, 2} }, dom \in { {1, 2}, {2} } :
          program_isr_info =
            [isr_funcs |-> isr,
             func_irq_infos |->
                Restrict((1 :> LdgFuncIrqInfo(<< i1, i2 >>))
                         @@ (2 :> LdgFuncIrqInfo(<< iG >>)), dom)]

NextLDG ==
    \/ LdgNormalCollect
    \/ LdgInterruptVisit
    \/ LdgLogEdges
    \/ LdgReturn
    \/ ReporterRun

SpecLDG == InitLDG /\ [][NextLDG]_vars

\* C1: when the IrqState at the start of the block the interrupt collector
\* has just visited is MustBeDisabled, no pair was collected there, whatever
\* the lockset there and whatever the ISR functions and their lock
\* operations; and the graph has no Interrupt edge at all.
DisabledInterruptsNoEdge ==
    /\ ( /\ ldg.at # 0
         /\ ldg.func \in DOMAIN program_isr_info.func_irq_infos
         /\ program_isr_info.func_irq_infos[ldg.func].pre_bb_irq_states[ldg.at]
               = "MustBeDisabled" )
       => ldg.here = {}
    /\ \A i \in 1 .. Len(graph.edges) : graph.edges[i].edge_type # "Interrupt"

\* C1 witness: the collector has visited a block of F where interrupts
\* must be disabled, A may be held with a recorded site and the ISR G
\* acquires A; an earlier block of F, with interrupts enabled, gave a pair.
DisabledInterruptsNoEdgeWitness ==
    /\ stage = "ldg" /\ ldg.func = 1 /\ ldg.at = 2
    /\ 1 \in DOMAIN program_isr_info.func_irq_infos
    /\ program_isr_info.func_irq_infos[1].pre_bb_irq_states[2] = "MustBeDisabled"
    /\ 1 \in DOMAIN program_lock_set /\ 2 \in DOMAIN program_lock_set
    /\ HeldLockSites(program_lock_set[1].pre_bb_locksets[2]) # {}
    /\ 2 \in program_isr_info.isr_funcs
    /\ program_lock_set[2].lock_operations # {}
    /\ ldg.here = {}
    /\ ldg.intr_edges # {}

\* C5: the held lock site of every collected pair belongs to a lock whose
\* state is MayHold in the lockset at the start of the block the pair was
\* collected at: the block just visited for an interrupt pair, some block of
\* the function for a normal pair.
SourcesMayHold ==
    /\ \A e \in ldg.here :
          program_lock_set[ldg.func].pre_bb_locksets[ldg.at]
             .lock_states[e[2].lock] = "MayHold"
    /\ \A e \in ldg.normal_edges \cup ldg.intr_edges :
          \E b \in Blocks(prog, ldg.func) :
             program_lock_set[ldg.func].pre_bb_locksets[b]
                .lock_states[e[2].lock] = "MayHold"

\* C5 witness (S5): at the call of G in F, A is MustNotHold and still has
\* its site recorded, B may be held, G acquires locks: pairs were collected,
\* none with A's site in F as the held site.
SourcesMayHoldWitness ==
    /\ stage = "ldg" /\ ldg.func = 1 /\ ldg.phase = "intr"
    /\ 1 \in DOMAIN program_lock_set
    /\ program_lock_set[1].pre_bb_locksets[1].lock_states["A"] = "MustNotHold"
    /\ program_lock_set[1].pre_bb_locksets[1].lock_sites["A"] = { CallSite(1, 1) }
    /\ ldg.normal_edges # {}
    /\ \A e \in ldg.normal_edges : e[2].lock # "A"


(***************************************************************************)
(* Properties of the pipeline (specification Spec)                         *)
(***************************************************************************)

\* The stages after LockSetAnalyzer::run has returned.
AfterLockSet == {"ldg", "report", "done"}

\* An edge of the graph from one lock site to another.
HasEdge(type, old, new) ==
    \E i \in 1 .. Len(graph.edges) :
        /\ graph.edges[i].edge_type = type
        /\ graph.edges[i].old_lock_site = old
        /\ graph.edges[i].new_lock_site = new

\* C2 (S1): once the pipeline has run on S1, the graph has an Interrupt
\* edge from the acquisition of LOCK in F to the acquisition of LOCK in I and
\* the reporter has reported exactly one candidate deadlock.
S1InterruptEdgeReported ==
    (prog = ProgS1 /\ stage = "done")
    => /\ HasEdge("Interrupt", LockSite("A", CallSite(1, 1)),
                  LockSite("A", CallSite(2, 1)))
       /\ Cardinality(report) = 1

\* C3 (S2): in S2, wherever LOCK may be held in F the IrqState at the start
\* of the block is MustBeDisabled, no interrupt pair is collected in F, the
\* graph has no Interrupt edge and the report is empty.
S2NoInterruptEdge ==
    prog = ProgS2
    => /\ stage \in AfterLockSet
          => \A b \in Blocks(prog, 1) :
                program_lock_set[1].pre_bb_locksets[b].lock_states["A"] = "MayHold"
                => program_isr_info.func_irq_infos[1].pre_bb_irq_states[b]
                      = "MustBeDisabled"
       /\ ldg.func = 1 => ldg.intr_edges = {}
       /\ \A i \in 1 .. Len(graph.edges) : graph.edges[i].edge_type # "Interrupt"
       /\ report = {}

\* C3 witness: the pipeline is done with S2; at the Drop in F LOCK may be
\* held and interrupts must be disabled, and I is an ISR function.
S2NoInterruptEdgeWitness ==
    /\ prog = ProgS2 /\ stage = "done"
    /\ program_lock_set[1].pre_bb_locksets[3].lock_states["A"] = "MayHold"
    /\ program_isr_info.func_irq_infos[1].pre_bb_irq_states[3] = "MustBeDisabled"
    /\ program_isr_info.func_irq_infos[1].pre_bb_irq_states[5] = "MayBeEnabled"
    /\ 2 \in program_isr_info.isr_funcs
    /\ report = {}

\* C4 (S3): once the pipeline has run on S3, the graph has a Normal edge
\* from A's site to B's site in F1 and one from B's site to A's site in F2,
\* and the reporter has reported one cycle.
S3NormalCycleReported ==
    (prog = ProgS3 /\ stage = "done")
    => /\ HasEdge("Normal", LockSite("A", CallSite(1, 1)),
                  LockSite("B", CallSite(1, 2)))
       /\ HasEdge("Normal", LockSite("B", CallSite(2, 1)),
                  LockSite("A", CallSite(2, 2)))
       /\ Cardinality(report) = 1

\* C6 (S6): after the normal collector has run on F, in S6 and in its
\* variant where the other branch carries A as MustNotHold, the lockset at
\* the call of G has A MayHold and a pair of B's site in G with A's site in
\* F has been collected.
S6NormalEdgeEmitted ==
    (prog \in {ProgS6, ProgS6Drop} /\ stage = "ldg" /\ ldg.func = 1
     /\ ldg.phase = "intr")
    => /\ program_lock_set[1].pre_bb_locksets[4].lock_states["A"] = "MayHold"
       /\ \E e \in ldg.normal_edges :
             /\ e[1] = LockSite("B", CallSite(2, 1))
             /\ e[2].lock = "A" /\ e[2].site[1] = 1

\* The predecessors of block b in the CFG of f.
Preds(p, f, b) == { x \in Blocks(p, f) : b \in p.body[f][x].succ }

\* u is the least upper bound of the IrqStates S.
IrqIsLub(u, S) ==
    /\ \A a \in S : IrqLeq(a, u)
    /\ \A v \in IrqStates : (\A a \in S : IrqLeq(a, v)) => IrqLeq(u, v)

\* u is the least upper bound of the locksets S: lock by lock the least
\* state above all of them, with all their sites.
LockSetIsLub(u, S) ==
    \A l \in Locks :
        /\ \A a \in S : LockStateLeq(a.lock_states[l], u.lock_states[l])
        /\ \A v \in LockStates :
              (\A a \in S : LockStateLeq(a.lock_states[l], v))
              => LockStateLeq(u.lock_states[l], v)
        /\ u.lock_sites[l] = UNION { a.lock_sites[l] : a \in S }

\* C8: in every FuncIrqInfo recorded, and in the lockset analysis of a
\* function once its engine has nothing left to do, the state at the start
\* of every block is the least upper bound of the states at the end of its
\* predecessors (and, for the start block, the entry state); in particular
\* the end state of B is <= the start state of B' for every edge B -> B'.
FixpointInvariant ==
    /\ \A f \in DOMAIN irq_analyzed :
          \A b \in Blocks(prog, f) :
             /\ \A x \in Preds(prog, f, b) :
                   IrqLeq(irq_analyzed[f].post_bb_irq_states[x],
                          irq_analyzed[f].pre_bb_irq_states[b])
             /\ IrqIsLub(irq_analyzed[f].pre_bb_irq_states[b],
                         { irq_analyzed[f].post_bb_irq_states[x]
                           : x \in Preds(prog, f, b) }
                         \cup (IF b = StartBlock THEN {"Bottom"} ELSE {}))
    /\ (stage = "lockset" /\ func_analyzer.active /\ func_analyzer.dirty = << >>)
       => LET f == func_analyzer.func_def_id
              exit(x) == LockBlockExit(prog, f, x, func_analyzer.entry_sets[x],
                                       analyzed_functions)
          IN \A b \in Blocks(prog, f) :
                /\ \A x \in Preds(prog, f, b) :
                      LockSetLeq(exit(x), func_analyzer.entry_sets[b])
                /\ LockSetIsLub(func_analyzer.entry_sets[b],
                                { exit(x) : x \in Preds(prog, f, b) }
                                \cup (IF b = StartBlock
                                      THEN { func_analyzer.entry_lockset }
                                      ELSE {}))

\* C8 witness: the lockset analysis of F of the loop program has reached
\* its fixpoint; the loop head has two predecessors that end in different
\* states in both analyses.
FixpointInvariantWitness ==
    /\ prog = ProgLoop /\ stage = "lockset"
    /\ func_analyzer.active /\ func_analyzer.dirty = << >>
    /\ func_analyzer.func_def_id = 1
    /\ irq_analyzed[1].post_bb_irq_states[1] = "MustBeDisabled"
    /\ irq_analyzed[1].post_bb_irq_states[5] = "MayBeEnabled"
    /\ irq_analyzed[1].pre_bb_irq_states[2] = "MayBeEnabled"
    /\ func_analyzer.entry_sets[1].lock_states["A"] = Absent
    /\ func_analyzer.entry_sets[5].lock_states["A"] = "MustNotHold"
    /\ func_analyzer.entry_sets[2].lock_states["A"] = "MustNotHold"

\* C10: no step of the lockset worklist removes a function from the cache
\* or makes its cached exit lockset smaller, whatever entry lockset the
\* function is analysed again with.
ExitNeverShrinks ==
    [][ \A f \in DOMAIN analyzed_functions :
           /\ f \in DOMAIN analyzed_functions'
           /\ LockSetLeq(analyzed_functions[f].exit_lockset,
                         analyzed_functions'[f].exit_lockset) ]_vars

\* C10 witness: a function with a cached result has been analysed again,
\* with an entry lockset strictly above the one of its cached result, and
\* its exit lockset has grown.
ExitNeverShrinksWitness ==
    /\ stage = "lockset"
    /\ func_analyzer.active /\ func_analyzer.dirty = << >>
    /\ func_analyzer.func_def_id \in DOMAIN analyzed_functions
    /\ LET old == analyzed_functions[func_analyzer.func_def_id]
       IN /\ func_analyzer.entry_lockset # old.entry_lockset
          /\ LockSetLeq(old.entry_lockset, func_analyzer.entry_lockset)
          /\ func_analyzer.func_lock_info.exit_lockset # old.exit_lockset
          /\ LockSetLeq(old.exit_lockset, func_analyzer.func_lock_info.exit_lockset)


LockSitesDistinctVertices ==
    (prog = ProgS1 /\ stage = "done")
    => \E v, w \in graph.nodes :
          /\ v # w
          /\ v = LockSite("A", CallSite(1, 1))
          /\ w = LockSite("A", CallSite(2, 1))


\* C13: the worklist loop ends because the queue is empty, never because
\* the iteration cap is used up with work still queued: after
\* LockSetAnalyzer::run has returned the queue is empty.
WorklistDrains ==
    stage \in AfterLockSet => worklist = << >>


\* C14: the budget of the worklist loop is 10 * N for N seeded items and
\* never negative; every pop of the queue, the pop of an item skipped for
\* want of a lock map included, takes exactly one unit of it and happens
\* only while budget and queue are both non-empty; the budget changes in no
\* other step; and the loop is left only when budget or queue is exhausted.
IterationBudget ==
    [][ /\ stage = "lockset"
           => /\ iteration_limit \in 0 .. IterationLimitFactor * Len(BodyOwners(prog))
              /\ iteration_limit' <= iteration_limit
        /\ (stage = "lockset" /\ worklist # << >> /\ worklist' = Tail(worklist))
           => /\ iteration_limit > 0
              /\ iteration_limit' = iteration_limit - 1
              /\ Head(worklist).func \notin DOMAIN prog.lockmap
                 => UNCHANGED << analyzed_functions, func_analyzer >>
        /\ (stage = "lockset" /\ iteration_limit' # iteration_limit)
           => /\ worklist # << >>
              /\ worklist' = Tail(worklist)
        /\ (stage = "lockset" /\ stage' # "lockset")
           => (iteration_limit = 0 \/ worklist = << >>)
        /\ (stage = "seed" /\ stage' = "lockset")
           => /\ Len(worklist') = Len(BodyOwners(prog))
              /\ iteration_limit' = IterationLimitFactor * Len(worklist') ]_vars

\* C14 witness: the loop has stopped on the exhausted budget with items
\* still queued, the next of them one that a pop would skip.
IterationBudgetWitness ==
    /\ stage = "ldg"
    /\ iteration_limit = 0
    /\ worklist # << >>
    /\ \E i \in 1 .. Len(worklist) : worklist[i].func \notin DOMAIN prog.lockmap
    /\ \E i \in 1 .. Len(worklist) : worklist[i].func \in DOMAIN prog.lockmap


\* C15: when the worklist loop has stopped on the exhausted budget with
\* work items still queued, the user is told so: the run has emitted a
\* warning that a converged run does not emit.
CapHitReported ==
    (stage \in AfterLockSet /\ iteration_limit = 0 /\ worklist # << >>)
    => LockSetRunWarnings(iteration_limit, worklist) # {}


\* The join of a sequence of locksets into `base`.
RECURSIVE MergeAll(_, _)
MergeAll(base, q) ==
    IF q = << >> THEN base ELSE MergeAll(Merge(base, Head(q)), Tail(q))

\* One round of the dataflow equations of f over all blocks at once: every
\* block's entry set joined with the exit states of its predecessors.
LockRound(p, f, sets, analyzed) ==
    [b \in Blocks(p, f) |->
        MergeAll(sets[b],
                 [i \in 1 .. Cardinality(Preds(p, f, b)) |->
                    LockBlockExit(p, f, SetToSeq(Preds(p, f, b))[i],
                                  sets[SetToSeq(Preds(p, f, b))[i]], analyzed)])]

\* iterate_to_fixpoint as a function: the rounds repeated until nothing
\* changes.
RECURSIVE LockFixpointFrom(_, _, _, _)
LockFixpointFrom(p, f, sets, analyzed) ==
    LET next == LockRound(p, f, sets, analyzed)
    IN IF next = sets THEN sets ELSE LockFixpointFrom(p, f, next, analyzed)

\* The block-entry locksets of the per-function analysis of f started with
\* `entry` under the cache `analyzed`.
LockAnalysis(p, f, entry, analyzed) ==
    LockFixpointFrom(p, f, [b \in Blocks(p, f) |->
                              IF b = StartBlock THEN entry ELSE NewLockSet],
                     analyzed)

\* The locksets at the Return blocks of f, given its block-entry locksets.
ReturnStates(p, f, sets) ==
    { sets[b] : b \in { x \in Blocks(p, f) : p.body[f][x].kind = "Return" } }


JoinLockSets ==
    { [lock_states |-> st, lock_sites |-> [l \in Locks |-> {}]]
      : st \in [Locks -> LockStates \cup {Absent}] }

\* Before a join is applied.  What an application records: the arguments
\* a, b, c and the results of a*b, b*a, a*a, (a*b)*c and a*(b*c).
InitJoin ==
    /\ IdlePipeline(ProgS1, "join")
    /\ program_isr_info = [isr_funcs |-> {}, func_irq_infos |-> EmptyMap]
    /\ program_lock_set = EmptyMap
    /\ ldg = IdleLdg
    /\ tf = NoTransfer

\* IsrState::union (the join of impl JoinSemiLattice for IrqState)
ApplyIrqUnion ==
    /\ stage = "join"
    /\ tf.kind = "none"
    /\ \E a \in IrqStates, b \in IrqStates, c \in IrqStates :
          tf' = [kind |-> "irq_union", a |-> a, b |-> b, c |-> c,
                 ab |-> IrqUnion(a, b), ba |-> IrqUnion(b, a), aa |-> IrqUnion(a, a),
                 ab_c |-> IrqUnion(IrqUnion(a, b), c),
                 a_bc |-> IrqUnion(a, IrqUnion(b, c))]
    /\ UNCHANGED << prog, stage, isrVars, program_isr_info, lsVars,
                    program_lock_set, ldgVars >>

\* LockState::union
ApplyLockStateUnion ==
    /\ stage = "join"
    /\ tf.kind = "none"
    /\ \E a \in LockStates, b \in LockStates, c \in LockStates :
          tf' = [kind |-> "lock_union", a |-> a, b |-> b, c |-> c,
                 ab |-> LockStateUnion(a, b), ba |-> LockStateUnion(b, a), aa |-> LockStateUnion(a, a),
                 ab_c |-> LockStateUnion(LockStateUnion(a, b), c),
                 a_bc |-> LockStateUnion(a, LockStateUnion(b, c))]
    /\ UNCHANGED << prog, stage, isrVars, program_isr_info, lsVars,
                    program_lock_set, ldgVars >>

\* LockSet::merge
ApplyMerge ==
    /\ stage = "join"
    /\ tf.kind = "none"
    /\ \E a \in JoinLockSets, b \in JoinLockSets, c \in JoinLockSets :
          tf' = [kind |-> "merge", a |-> a, b |-> b, c |-> c,
                 ab |-> Merge(a, b), ba |-> Merge(b, a), aa |-> Merge(a, a),
                 ab_c |-> Merge(Merge(a, b), c),
                 a_bc |-> Merge(a, Merge(b, c))]
    /\ UNCHANGED << prog, stage, isrVars, program_isr_info, lsVars,
                    program_lock_set, ldgVars >>

NextJoin == ApplyIrqUnion \/ ApplyLockStateUnion \/ ApplyMerge

SpecJoin == InitJoin /\ [][NextJoin]_vars

\* C17: the IrqState join follows the table: Bottom joined with x is x on
\* either side, MustBeDisabled with MustBeDisabled is MustBeDisabled, and
\* every other pair is MayBeEnabled.
IrqJoinTable ==
    tf.kind = "irq_union"
    => tf.ab = CASE tf.a = "Bottom" -> tf.b
                 [] tf.b = "Bottom" -> tf.a
                 [] tf.a = "MustBeDisabled" /\ tf.b = "MustBeDisabled"
                      -> "MustBeDisabled"
                 [] OTHER -> "MayBeEnabled"

\* C17 witness: MustBeDisabled joined with MayBeEnabled gave MayBeEnabled.
IrqJoinTableWitness ==
    /\ tf.kind = "irq_union"
    /\ tf.a = "MustBeDisabled"
    /\ tf.b = "MayBeEnabled"
    /\ tf.ab = "MayBeEnabled"

\* C18, as stated: for every pair of values of the implementation's
\* LockState, Bottom joined with x is x on either side, MustNotHold with
\* MustNotHold is MustNotHold, and every other pair joins to MayHold.
LockJoinTableThreeValued ==
    tf.kind = "lock_union"
    => tf.ab = CASE tf.a = "Bottom" -> tf.b
                 [] tf.b = "Bottom" -> tf.a
                 [] tf.a = "MustNotHold" /\ tf.b = "MustNotHold"
                      -> "MustNotHold"
                 [] OTHER -> "MayHold"

\* C18, amended: as above, and MustHold joined with MustHold is MustHold.
LockJoinTable ==
    tf.kind = "lock_union"
    => tf.ab = CASE tf.a = "Bottom" -> tf.b
                 [] tf.b = "Bottom" -> tf.a
                 [] tf.a = "MustNotHold" /\ tf.b = "MustNotHold"
                      -> "MustNotHold"
                 [] tf.a = "MustHold" /\ tf.b = "MustHold" -> "MustHold"
                 [] OTHER -> "MayHold"

\* C18 witness: MustHold joined with MustHold gave MustHold.
LockJoinTableWitness ==
    /\ tf.kind = "lock_union"
    /\ tf.a = "MustHold"
    /\ tf.b = "MustHold"
    /\ tf.ab = "MustHold"

\* A join result with an absent lock counted as Bottom.
AbsentAsBottom(x) ==
    IF tf.kind = "merge"
    THEN [x EXCEPT !.lock_states =
            [l \in Locks |-> IF x.lock_states[l] = Absent THEN "Bottom"
                             ELSE x.lock_states[l]]]
    ELSE x

\* C19: IsrState::union, LockState::union and LockSet::merge (an absent
\* lock counting as Bottom) are commutative, associative and idempotent.
JoinLaws ==
    tf.kind \in {"irq_union", "lock_union", "merge"}
    => /\ AbsentAsBottom(tf.ab) = AbsentAsBottom(tf.ba)
       /\ AbsentAsBottom(tf.ab_c) = AbsentAsBottom(tf.a_bc)
       /\ AbsentAsBottom(tf.aa) = AbsentAsBottom(tf.a)

\* C19 witness: three locksets were merged in which lock A is MustHold,
\* Bottom and MustNotHold and lock B is absent, MayHold and absent; both
\* groupings gave A MayHold.
JoinLawsWitness ==
    /\ tf.kind = "merge"
    /\ tf.a.lock_states = [l \in Locks |-> IF l = "A" THEN "MustHold" ELSE Absent]
    /\ tf.b.lock_states = [l \in Locks |-> IF l = "A" THEN "Bottom" ELSE "MayHold"]
    /\ tf.c.lock_states = [l \in Locks |-> IF l = "A" THEN "MustNotHold" ELSE Absent]
    /\ tf.ab_c.lock_states["A"] = "MayHold"
    /\ tf.a_bc.lock_states["A"] = "MayHold"

(***************************************************************************)
(* The reporter on its own: any small multigraph, built edge by edge       *)
(***************************************************************************)

MaxNodes == 2
MaxEdges == 3

EdgeTypes == {"Normal", "Interrupt"}

InitReporter ==
    /\ IdlePipeline(ProgS1, "report")
    /\ program_isr_info = [isr_funcs |-> {}, func_irq_infos |-> EmptyMap]
    /\ program_lock_set = EmptyMap
    /\ ldg = IdleLdg
    /\ tf = NoTransfer

\* Graph::add_node: the new vertex gets the next index.
GraphAddNode ==
    /\ stage = "report"
    /\ Cardinality(graph.nodes) < MaxNodes
    /\ graph' = [graph EXCEPT !.nodes = @ \cup { Cardinality(@) + 1 }]
    /\ UNCHANGED << prog, stage, isrVars, program_isr_info, lsVars,
                    program_lock_set, ldg, report, tf >>

\* Graph::add_edge: one more edge between two vertices, parallel edges and
\* self-edges allowed; it is the edge find_edge meets first from now on.
GraphAddEdge ==
    /\ stage = "report"
    /\ Len(graph.edges) < MaxEdges
    /\ \E a \in graph.nodes, b \in graph.nodes, type \in EdgeTypes :
          graph' = [graph EXCEPT !.edges =
                      Append(@, [source |-> a, target |-> b, edge_type |-> type])]
    /\ UNCHANGED << prog, stage, isrVars, program_isr_info, lsVars,
                    program_lock_set, ldg, report, tf >>

NextReporter == GraphAddNode \/ GraphAddEdge \/ ReporterRun

SpecReporter == InitReporter /\ [][NextReporter]_vars

InterruptCollected ==
    stage = "ldg" /\ ldg.phase = "intr" /\ ldg.block \notin Blocks(prog, ldg.func)

NotInCrate == 8

\* The entries that can be configured.
ConfiguredEntries == SUBSET {1, 2, 3, NotInCrate}

InitIsrSet ==
    /\ \E p \in Programs, entries \in ConfiguredEntries :
          prog = [p EXCEPT !.isr_entries = entries]
    /\ stage = "collect"
    /\ roots = << >>
    /\ frames = << >>
    /\ recursion_stack = {}
    /\ irq_analyzed = EmptyMap
    /\ irq_engine = IdleEngine
    /\ program_isr_info = [isr_funcs |-> {}, func_irq_infos |-> EmptyMap]
    /\ worklist = << >>
    /\ iteration_limit = 0
    /\ analyzed_functions = EmptyMap
    /\ func_analyzer = IdleAnalyzer
    /\ program_lock_set = EmptyMap
    /\ ldg = IdleLdg
    /\ graph = NewGraph
    /\ report = {}
    /\ tf = NoTransfer

\* IsrAnalyzer::run, step 1: collect_isr.
CollectIsrRun ==
    /\ stage = "collect"
    /\ program_isr_info' = [program_isr_info EXCEPT !.isr_funcs = CollectIsr(prog)]
    /\ stage' = "collected"
    /\ UNCHANGED << prog, isrVars, lsVars, program_lock_set, ldgVars, tf >>

NextIsrSet == CollectIsrRun

SpecIsrSet == InitIsrSet /\ [][NextIsrSet]_vars

\* g is called, by a resolved call, from a block of f.
CallEdge(f, g) ==
    /\ f \in 1 .. Len(prog.body)
    /\ \E b \in 1 .. Len(prog.body[f]) :
          prog.body[f][b].kind = "Call" /\ prog.body[f][b].callee = g

\* Every function a call edge or a configured entry can name.
DefIds == (1 .. Len(prog.body)) \cup {NotInCrate, Ext}

\* S contains the configured entries found in the crate and every callee
\* of every function in it.
ClosedFromEntries(S) ==
    /\ \A e \in prog.isr_entries : e \in 1 .. Len(prog.body) => e \in S
    /\ \A f \in S : \A g \in DefIds : CallEdge(f, g) => g \in S

\* C24: the ISR function set is the least set that contains the configured
\* entries found in the crate and is closed under call edges: every entry
\* found is in it, reaching itself or not, a name that is not in the crate
\* adds nothing, and nothing unreachable from the entries is in it.
IsrSetIsReachable ==
    stage = "collected"
    => /\ ClosedFromEntries(program_isr_info.isr_funcs)
       /\ \A T \in SUBSET DefIds :
             ClosedFromEntries(T) => program_isr_info.isr_funcs \subseteq T
       /\ NotInCrate \notin program_isr_info.isr_funcs

\* C24 witness: on the call chain F -> G -> H with G and an unknown name
\* configured, the set is G, H and the lock API H calls; G does not reach
\* itself and F is not in the set.
IsrSetIsReachableWitness ==
    /\ stage = "collected"
    /\ prog.name = "Chain"
    /\ prog.isr_entries = {2, NotInCrate}
    /\ program_isr_info.isr_funcs = {2, 3, Ext}

\* The state r after the terminator tf.t applied to the IrqState s, as the
\* transfer table gives it: callee 2 is an enable API, 3 a disable API, 5 a
\* function with the cached return state tf.cexit, 6 and the external
\* callee have no cached result.  (Callee 4, configured as both kinds of
\* API, and callee 7, cached without MIR, are outside the table: the two
\* configured API paths name different functions and only functions with
\* MIR are ever cached.)
IrqTransferRow(s, r) ==
    IF tf.t.kind # "Call" THEN r = s
    ELSE CASE tf.t.callee = 2 -> r = "MayBeEnabled" /\ IrqIsLub(r, {s, "MayBeEnabled"})
           [] tf.t.callee = 3 -> r = "MustBeDisabled"
           [] tf.t.callee = 5 -> IrqIsLub(r, {s, tf.cexit})
           [] tf.t.callee \in {Unresolved, 6, Ext} -> r = s
           [] OTHER -> TRUE

\* C25: the IrqState transfer: MayBeEnabled after a call of an enable API
\* whatever the state before, MustBeDisabled after a call of a disable API,
\* the join of the state before with the callee's cached return state
\* after any other call, unchanged when the callee is unresolved or has no
\* cached result, and unchanged by every terminator that is not a Call.
IrqTransferTable ==
    tf.kind = "irq"
    => IrqTransferRow(tf.s1, tf.r1) /\ IrqTransferRow(tf.s2, tf.r2)

\* C25 witness: a call of the cached callee, whose return state is
\* MayBeEnabled, was applied to MustBeDisabled and gave MayBeEnabled.
IrqTransferTableWitness ==
    /\ tf.kind = "irq"
    /\ tf.t.kind = "Call" /\ tf.t.callee = 5
    /\ tf.s1 = "MustBeDisabled" /\ tf.cexit = "MayBeEnabled"
    /\ tf.r1 = "MayBeEnabled"

\* The blocks of f that end in Return.
ReturnBlocks(f) == { b \in Blocks(prog, f) : prog.body[f][b].kind = "Return" }

\* The blocks of f that the start block reaches in the CFG.
RECURSIVE ReachableBlocks(_, _)
ReachableBlocks(f, seen) ==
    LET next == seen \cup UNION { prog.body[f][b].succ : b \in seen }
    IN IF next = seen THEN seen ELSE ReachableBlocks(f, next)

\* C26: the cached return state of every function is the join of the
\* IrqStates at its Return terminators, and Bottom when none of them is
\* reachable; the state at the start of its start block is Bottom, whatever
\* the state at the calls of it.
ReturnStateIsJoinOfReturns ==
    \A f \in DOMAIN irq_analyzed :
       /\ IrqIsLub(irq_analyzed[f].exit_irq_state,
                   { irq_analyzed[f].post_bb_irq_states[b] : b \in ReturnBlocks(f) })
       /\ ReturnBlocks(f) \cap ReachableBlocks(f, {StartBlock}) = {}
          => irq_analyzed[f].exit_irq_state = "Bottom"
       /\ irq_analyzed[f].pre_bb_irq_states[StartBlock] = "Bottom"

\* C26 witness: in the Spin crate F, whose Return is unreachable and whose
\* loop runs with interrupts enabled, has Bottom as its return state, and G
\* calls F with interrupts disabled while F starts from Bottom.
ReturnStateIsJoinOfReturnsWitness ==
    /\ prog = ProgSpin
    /\ {1, 4} \subseteq DOMAIN irq_analyzed
    /\ irq_analyzed[1].pre_bb_irq_states[2] = "MayBeEnabled"
    /\ irq_analyzed[1].exit_irq_state = "Bottom"
    /\ irq_analyzed[4].pre_bb_irq_states[2] = "MustBeDisabled"
    /\ irq_analyzed[1].pre_bb_irq_states[StartBlock] = "Bottom"

\* The functions being analysed, innermost first, are pairwise different
\* and are exactly the recursion stack.
StackIsFrames ==
    /\ recursion_stack = { frames[i].func : i \in 1 .. Len(frames) }
    /\ Cardinality(recursion_stack) = Len(frames)
    /\ Len(frames) <= Len(prog.body)

\* In the result just cached for a function, every call of a callee that is
\* on the recursion stack (and is no interrupt API) has the same IrqState
\* after it as before it.
StackCalleeContributesBottom ==
    \A f \in DOMAIN irq_analyzed' \ DOMAIN irq_analyzed :
       \A b \in Blocks(prog, f) :
          ( /\ prog.body[f][b].kind = "Call"
            /\ prog.body[f][b].callee \in recursion_stack
            /\ prog.body[f][b].callee \notin prog.enable_apis \cup prog.disable_apis )
          => irq_analyzed'[f].post_bb_irq_states[b]
                = irq_analyzed'[f].pre_bb_irq_states[b]

\* C27: in the ISR driver a callee that is on the recursion stack is not
\* entered again (no function is on the stack twice, so the descent is at
\* most as deep as the crate has functions), a call of it leaves the
\* caller's IrqState unchanged, and the driver comes to its end.
CycleCalleeIsBottom ==
    /\ [] StackIsFrames
    /\ [][StackCalleeContributesBottom]_vars
    /\ <>(stage # "isr")

\* C27 witness: in the IrqJoin crate H has been analysed while G, which it
\* calls and which calls it, was on the recursion stack; G itself is still
\* being analysed, and the call of G in H left the IrqState as it was.
CycleCalleeIsBottomWitness ==
    /\ prog = ProgIrqJoin
    /\ stage = "isr"
    /\ 3 \in DOMAIN irq_analyzed
    /\ 2 \in recursion_stack
    /\ prog.body[3][2].callee = 2
    /\ irq_analyzed[3].post_bb_irq_states[2] = irq_analyzed[3].pre_bb_irq_states[2]

\* C28: the ISR driver analyses every function at most once: the engine is
\* started only for a function without a cached result, a cached result is
\* never changed or removed, and when the driver finishes the recursion
\* stack is empty and every function with MIR has a cached result, which is
\* what is saved.
AnalysedOnce ==
    [][ /\ \A f \in DOMAIN irq_analyzed :
              f \in DOMAIN irq_analyzed' /\ irq_analyzed'[f] = irq_analyzed[f]
        /\ (~irq_engine.active /\ irq_engine'.active)
           => Head(frames).func \notin DOMAIN irq_analyzed
        /\ (stage = "isr" /\ stage' # "isr")
           => /\ recursion_stack = {}
              /\ DOMAIN irq_analyzed = MirAvailable(prog)
              /\ program_isr_info'.func_irq_infos = irq_analyzed
      ]_vars

\* C28 witness: the driver has finished on the IrqJoin crate, whose
\* functions G and H are visited several times (as roots, as callees of F
\* and of each other): all five functions have a result and the stack is
\* empty.
AnalysedOnceWitness ==
    /\ prog = ProgIrqJoin
    /\ stage = "seed"
    /\ recursion_stack = {}
    /\ DOMAIN program_isr_info.func_irq_infos = 1 .. 5

\* C29: when the ISR driver has finished, for every function f and every
\* call in f of a callee g that is no interrupt API and has a cached result,
\* the IrqState recorded in f after the call is >= the final cached return
\* state of g.
CallSitesCoverCalleeExit ==
    stage # "isr"
    => \A f \in DOMAIN program_isr_info.func_irq_infos :
          \A b \in Blocks(prog, f) :
             LET g == prog.body[f][b].callee
             IN ( /\ prog.body[f][b].kind = "Call"
                  /\ g \notin prog.enable_apis \cup prog.disable_apis
                  /\ g \in DOMAIN program_isr_info.func_irq_infos )
                => IrqLeq(program_isr_info.func_irq_infos[g].exit_irq_state,
                          program_isr_info.func_irq_infos[f].post_bb_irq_states[b])

\* C29 witness: the driver has finished on the IrqJoin crate: G returns
\* with interrupts disabled, and H, analysed while G was on the recursion
\* stack, has Bottom after its call of G.
CallSitesCoverCalleeExitWitness ==
    /\ prog = ProgIrqJoin
    /\ stage = "seed"
    /\ program_isr_info.func_irq_infos[2].exit_irq_state = "MustBeDisabled"
    /\ program_isr_info.func_irq_infos[3].post_bb_irq_states[2] = "Bottom"

\* The location of the terminator the lockset transfer is applied to.
TransferLocation == CallSite(1, 1)

\* C30: a Call whose destination is a guard local that the lock map maps to
\* lock L leaves L MayHold and the location of the call in L's call-site
\* set, whatever the callee is (a lock API or not, resolved or not).
GuardCallAcquires ==
    (tf.kind = "lock" /\ tf.t.kind = "Call" /\ tf.t.local \in DOMAIN tf.lockmap)
    => LET L == tf.lockmap[tf.t.local]
       IN /\ tf.r1.lock_states[L] = "MayHold"
          /\ TransferLocation \in tf.r1.lock_sites[L]
          /\ tf.r2.lock_states[L] = "MayHold"
          /\ TransferLocation \in tf.r2.lock_sites[L]

\* C30 witness: a call of an unresolved callee into the guard local of A
\* was applied to a lockset without A and gave the same lockset.
GuardCallAcquiresWitness ==
    /\ tf.kind = "lock"
    /\ tf.t = Call(Unresolved, 1, {2})
    /\ tf.s1 = NewLockSet
    /\ tf.r1 = NewLockSet

\* The lockset r after a Call into a local that is no mapped guard local,
\* applied to the lockset s: callee 2 has the cached exit lockset tf.cexit,
\* callee 3 has no cached result.
OtherCallRow(s, r) ==
    IF tf.t.callee = 2 THEN LockSetIsLub(r, {s, tf.cexit}) ELSE r = s

\* C31: a Call whose destination is no mapped guard local joins the
\* callee's cached exit lockset, lock by lock, into the current lockset;
\* with an unresolved callee or one without cached result the lockset after
\* the call is the lockset before it.
OtherCallJoinsExit ==
    (tf.kind = "lock" /\ tf.t.kind = "Call" /\ tf.t.local \notin DOMAIN tf.lockmap)
    => OtherCallRow(tf.s1, tf.r1) /\ OtherCallRow(tf.s2, tf.r2)

\* C31 witness: a call of the cached callee into an ordinary local, with A
\* MustNotHold before the call and MustHold in the callee's exit, gave A
\* MayHold.
OtherCallJoinsExitWitness ==
    /\ tf.kind = "lock"
    /\ tf.t = Call(2, Tmp, {2})
    /\ tf.s1.lock_states["A"] = "MustNotHold"
    /\ tf.cexit.lock_states["A"] = "MustHold"
    /\ tf.r1.lock_states["A"] = "MayHold"

(***************************************************************************)
(* What one iteration of the lockset worklist queues and saves             *)
(***************************************************************************)

\* This step is the end of the iteration that analysed a function.
IterationEnds ==
    stage = "lockset" /\ func_analyzer.active /\ ~func_analyzer'.active

\* The items this step has put at the back of the queue.
Queued == SubSeq(worklist', Len(worklist) + 1, Len(worklist'))

\* The calls in f of a resolved callee: (block, callee).
CallSitesOf(f) ==
    { << b, prog.body[f][b].callee >> :
        b \in { x \in Blocks(prog, f) :
                  prog.body[f][x].kind = "Call"
                  /\ prog.body[f][x].callee # Unresolved } }

\* C32: at the end of the iteration that analysed f, when f had no cached
\* result or its new exit lockset is not its cached one, every caller of f
\* is put on the queue, once, with the caller's cached entry lockset (the
\* empty lockset when it has none), before anything else; when the exit is
\* unchanged nothing is queued for a caller: everything queued is then a
\* work item for a function called in f, one item per function, with the
\* lockset at the start of a block of f that calls it.
CallersQueuedOnExitChange ==
    [][ IterationEnds
        => LET f == func_analyzer.func_def_id
               changed == \/ f \notin DOMAIN analyzed_functions
                          \/ analyzed_functions[f].exit_lockset
                               # analyzed_functions'[f].exit_lockset
               callers == { c \in 1 .. Len(prog.body) :
                              \E cs \in CallSitesOf(c) : cs[2] = f }
               queued_for == IF changed THEN callers ELSE {}
               k == Cardinality(queued_for)
           IN /\ Len(Queued) >= k
              /\ { Queued[i].func : i \in 1 .. k } = queued_for
              /\ \A i \in 1 .. k :
                    Queued[i].entry =
                       IF Queued[i].func \in DOMAIN analyzed_functions
                       THEN analyzed_functions[Queued[i].func].entry_lockset
                       ELSE NewLockSet
              /\ \A i \in (k + 1) .. Len(Queued) :
                    /\ \E cs \in CallSitesOf(f) :
                          /\ cs[2] = Queued[i].func
                          /\ Queued[i].entry
                               = analyzed_functions'[f].pre_bb_locksets[cs[1]]
                    /\ \A j \in (k + 1) .. Len(Queued) :
                          Queued[j].func = Queued[i].func => j = i
      ]_vars

\* C32 witness: in the chain crate the third iteration has just analysed H
\* for the first time, and its caller G is at the back of the queue with
\* G's cached entry lockset.
CallersQueuedOnExitChangeWitness ==
    /\ prog = ProgChain
    /\ stage = "lockset"
    /\ ~func_analyzer.active
    /\ iteration_limit = IterationLimitFactor * 3 - 3
    /\ DOMAIN analyzed_functions = {1, 2, 3}
    /\ Len(worklist) > 0
    /\ worklist[Len(worklist)] =
          [func |-> 2, entry |-> analyzed_functions[2].entry_lockset]

\* The cached entry lockset of g, the empty lockset when g has no cached
\* result.
CachedEntry(g) ==
    IF g \in DOMAIN analyzed_functions
    THEN analyzed_functions[g].entry_lockset ELSE NewLockSet

\* C33: at the end of the iteration that analysed f, for every call in f of
\* a resolved callee, the work item (callee, lockset at the start of the
\* block of the call) has been queued exactly when that lockset is not the
\* callee's cached entry lockset (the empty lockset when the callee has no
\* cached result); so two calls of one callee under different locksets are
\* both on the queue.
CalleesQueuedPerCallSite ==
    [][ IterationEnds
        => LET f == func_analyzer.func_def_id
           IN \A cs \in CallSitesOf(f) :
                 LET before == analyzed_functions'[f].pre_bb_locksets[cs[1]]
                 IN (\E i \in 1 .. Len(Queued) :
                        Queued[i] = [func |-> cs[2], entry |-> before])
                    <=> before # CachedEntry(cs[2])
      ]_vars

\* This step charges the budget: it is the pop of a work item.
ItemPopped == stage = "lockset" /\ iteration_limit' # iteration_limit

\* C34: the queue starts with one item (f, empty lockset) for every
\* function of the crate, in the order of the body owners; an item is
\* taken from the front and items are put at the back only; the analysis
\* that starts is the one of the front item's function under the front
\* item's lockset; and the pop of an item whose function has no lock map
\* leaves the cache and the analyser as they are and queues nothing.
SeedFifoSkip ==
    [][ /\ (stage = "seed" /\ stage' = "lockset")
           => worklist' = [i \in 1 .. Len(prog.body) |->
                              [func |-> i, entry |-> NewLockSet]]
        /\ (stage = "lockset" /\ stage' = "lockset")
           => IF ItemPopped
              THEN /\ worklist # << >>
                   /\ worklist' = Tail(worklist)
                   /\ analyzed_functions' = analyzed_functions
                   /\ IF Head(worklist).func \in DOMAIN prog.lockmap
                      THEN /\ func_analyzer'.active
                           /\ func_analyzer'.func_def_id = Head(worklist).func
                           /\ func_analyzer'.entry_sets[StartBlock]
                                = Head(worklist).entry
                      ELSE func_analyzer' = func_analyzer
              ELSE /\ Len(worklist') >= Len(worklist)
                   /\ SubSeq(worklist', 1, Len(worklist)) = worklist
      ]_vars

\* C34 witness: in the loop crate F and I have been analysed and the item
\* of disable_local, which has no lock map, has just been popped: the
\* analyser is idle, the cache holds F and I only and the item of
\* enable_local is at the front.
SeedFifoSkipWitness ==
    /\ prog = ProgLoop
    /\ stage = "lockset"
    /\ ~func_analyzer.active
    /\ iteration_limit = IterationLimitFactor * 4 - 3
    /\ DOMAIN analyzed_functions = {1, 2}
    /\ worklist # << >>
    /\ Head(worklist) = [func |-> 4, entry |-> NewLockSet]

\* C35: a step of the lockset stage changes the cache only at the end of
\* an iteration, and then only the entry of the function that was
\* analysed: every other function keeps its cached result, and no other
\* function gets one.
OnlyOwnCacheEntryChanges ==
    [][ stage = "lockset"
        => IF IterationEnds
           THEN /\ DOMAIN analyzed_functions'
                     = DOMAIN analyzed_functions \cup {func_analyzer.func_def_id}
                /\ \A g \in DOMAIN analyzed_functions :
                      g # func_analyzer.func_def_id
                      => analyzed_functions'[g] = analyzed_functions[g]
           ELSE analyzed_functions' = analyzed_functions
      ]_vars

\* C35 witness: in the two-sites crate the second iteration has analysed G
\* while F's result of the first iteration is in the cache.
OnlyOwnCacheEntryChangesWitness ==
    /\ prog = ProgTwoSites
    /\ stage = "lockset"
    /\ ~func_analyzer.active
    /\ iteration_limit = IterationLimitFactor * 2 - 2
    /\ DOMAIN analyzed_functions = {1, 2}
    /\ analyzed_functions[1].exit_lockset.lock_states["A"] = "MustNotHold"
    /\ analyzed_functions[2].exit_lockset.lock_states["B"] = "MustNotHold"

Locals == {1, 2, 3}
\* The most locals one local depends on in dependency_map.
MaxDeps == 2
\* alias_map.get / local_guard_map.get of a local without binding.
Unbound == "None"

\* alias_map or local_guard_map: the binding of every local, or none.
BindingMaps == [Locals -> Locks \cup {Unbound}]
\* dependency_map: the locals every local depends on (a local without
\* entry and a local with an empty set behave alike).
DependencyMaps ==
    [Locals -> { D \in SUBSET Locals : Cardinality(D) <= MaxDeps }]

\* The position of the first bound local in the order the for loop meets
\* the dependencies, 0 when none is bound.
FirstBound(order, map) ==
    IF \E i \in 1 .. Len(order) : map[order[i]] # Unbound
    THEN CHOOSE i \in 1 .. Len(order) :
            /\ map[order[i]] # Unbound
            /\ \A j \in 1 .. (i - 1) : map[order[j]] = Unbound
    ELSE 0

\* Before a resolver is called: the function, place.local and the two maps
\* are drawn.
InitResolve ==
    /\ IdlePipeline(ProgS1, "resolve")
    /\ program_isr_info = [isr_funcs |-> {}, func_irq_infos |-> EmptyMap]
    /\ program_lock_set = EmptyMap
    /\ ldg = IdleLdg
    /\ \E fn \in {"resolve_place_to_lock_object", "resolve_place_to_lockguard"},
          local \in Locals, map \in BindingMaps, dm \in DependencyMaps :
          tf = [kind |-> "resolve", fn |-> fn, local |-> local, map |-> map,
                dependency_map |-> dm, pc |-> "start", visited |-> {},
                stack |-> << >>, expanded |-> << >>, result |-> Unbound]

\* The resolvers up to the loop: the binding of place.local is returned
\* when there is one; otherwise visited is empty and the stack holds
\* place.local.
ResolveDirect ==
    /\ stage = "resolve"
    /\ tf.pc = "start"
    /\ tf' = IF tf.map[tf.local] # Unbound
             THEN [tf EXCEPT !.result = tf.map[tf.local], !.pc = "done"]
             ELSE [tf EXCEPT !.stack = << tf.local >>, !.pc = "loop"]
    /\ UNCHANGED << prog, stage, isrVars, program_isr_info, lsVars,
                    program_lock_set, ldgVars >>

\* One round of the loop without the visited set: every popped local is
\* expanded.
ResolveStepNoVisited ==
    /\ stage = "resolve"
    /\ tf.pc = "loop"
    /\ tf.stack # << >>
    /\ LET current == tf.stack[Len(tf.stack)]
           rest == SubSeq(tf.stack, 1, Len(tf.stack) - 1)
       IN \E order \in Orders(tf.dependency_map[current]) :
             LET i == FirstBound(order, tf.map)
             IN tf' = IF i # 0
                      THEN [tf EXCEPT
                              !.expanded = Append(tf.expanded, current),
                              !.stack = rest \o SubSeq(order, 1, i - 1),
                              !.result = tf.map[order[i]],
                              !.pc = "done"]
                      ELSE [tf EXCEPT
                              !.expanded = Append(tf.expanded, current),
                              !.stack = rest \o order]
    /\ UNCHANGED << prog, stage, isrVars, program_isr_info, lsVars,
                    program_lock_set, ldgVars >>

\* One round of the loop: the last local of the stack is popped; when it is
\* new to visited its dependencies are met in some order, the binding of
\* the first bound one is returned, and the ones met before are pushed.
\* expanded lists the locals whose dependencies have been looked up.
ResolveStep ==
    /\ stage = "resolve"
    /\ tf.pc = "loop"
    /\ tf.stack # << >>
    /\ LET current == tf.stack[Len(tf.stack)]
           rest == SubSeq(tf.stack, 1, Len(tf.stack) - 1)
       IN IF current \in tf.visited
          THEN tf' = [tf EXCEPT !.stack = rest]
          ELSE \E order \in Orders(tf.dependency_map[current]) :
                  LET i == FirstBound(order, tf.map)
                  IN tf' = IF i # 0
                           THEN [tf EXCEPT
                                   !.visited = tf.visited \cup {current},
                                   !.expanded = Append(tf.expanded, current),
                                   !.stack = rest \o SubSeq(order, 1, i - 1),
                                   !.result = tf.map[order[i]],
                                   !.pc = "done"]
                           ELSE [tf EXCEPT
                                   !.visited = tf.visited \cup {current},
                                   !.expanded = Append(tf.expanded, current),
                                   !.stack = rest \o order]
    /\ UNCHANGED << prog, stage, isrVars, program_isr_info, lsVars,
                    program_lock_set, ldgVars >>

\* The resolvers after the loop: the stack is empty, None is returned.
ResolveNone ==
    /\ stage = "resolve"
    /\ tf.pc = "loop"
    /\ tf.stack = << >>
    /\ tf' = [tf EXCEPT !.result = Unbound, !.pc = "done"]
    /\ UNCHANGED << prog, stage, isrVars, program_isr_info, lsVars,
                    program_lock_set, ldgVars >>

NextResolve ==
    \/ ResolveDirect
    \/ ResolveStep
    \/ ResolveNone

SpecResolve == InitResolve /\ [][NextResolve]_vars /\ WF_vars(NextResolve)

\* The locals reached from the frontier by one or more dependencies.
RECURSIVE DependsOn(_, _, _)
DependsOn(dm, frontier, seen) ==
    IF frontier = {} THEN seen
    ELSE LET next == UNION { dm[l] : l \in frontier }
         IN DependsOn(dm, next \ seen, seen \cup next)

\* What a resolver has returned is right: the binding of place.local when
\* it has one, with no dependency looked up; otherwise the binding of a
\* local place.local depends on, directly or not, and None exactly when
\* none of them is bound.
ResolvedRight ==
    tf.pc = "done"
    => IF tf.map[tf.local] # Unbound
       THEN tf.result = tf.map[tf.local] /\ tf.expanded = << >>
       ELSE LET reach == DependsOn(tf.dependency_map, {tf.local}, {})
            IN /\ tf.result # Unbound
                  => \E l \in reach : tf.map[l] = tf.result
               /\ tf.result = Unbound
                  <=> \A l \in reach : tf.map[l] = Unbound

\* The dependencies of no local have been looked up twice.
ExpandedOnce ==
    \A i, j \in 1 .. Len(tf.expanded) :
       tf.expanded[i] = tf.expanded[j] => i = j

\* C37: a resolver returns the direct binding of place.local when there is
\* one; otherwise it looks up the dependencies of each local at most once,
\* ends on every dependency map, cyclic ones included, and returns the
\* binding of a local reached through the dependencies, or nothing when
\* none of them is bound.
ResolverEndsRight ==
    /\ []ResolvedRight
    /\ []ExpandedOnce
    /\ <>(tf.pc = "done")

\* C37 witness: place.local 1 is unbound and on a dependency cycle with 2;
\* 1 and 2 have been expanded, 3, the only bound local, was met from 2 and
\* its binding was returned.
ResolverEndsRightWitness ==
    /\ tf.pc = "done"
    /\ tf.local = 1
    /\ tf.map = (1 :> Unbound) @@ (2 :> Unbound) @@ (3 :> "B")
    /\ tf.dependency_map = (1 :> {2}) @@ (2 :> {1, 3}) @@ (3 :> {})
    /\ tf.expanded = << 1, 2 >>
    /\ tf.result = "B"

\* C38: at the end of the iteration that processed the item (f, e), the
\* cached entry lockset of f is e, whatever f's cached result was before.
CachedEntryIsItemEntry ==
    [][ IterationEnds
        => analyzed_functions'[func_analyzer.func_def_id].entry_lockset
             = func_analyzer.entry_lockset
      ]_vars

(***************************************************************************)
(* The ISR driver as a function of the crate                               *)
(***************************************************************************)

\* One round of the dataflow equations of the IrqState analysis of f over
\* all blocks at once.
IrqRound(p, f, sets, analyzed) ==
    [b \in Blocks(p, f) |->
        IrqJoinAll(sets[b],
                   [i \in 1 .. Cardinality(Preds(p, f, b)) |->
                      IrqBlockExit(p, f, SetToSeq(Preds(p, f, b))[i],
                                   sets[SetToSeq(Preds(p, f, b))[i]], analyzed)])]

\* iterate_to_fixpoint as a function: the rounds repeated until nothing
\* changes.
RECURSIVE IrqFixpointFrom(_, _, _, _)
IrqFixpointFrom(p, f, sets, analyzed) ==
    LET next == IrqRound(p, f, sets, analyzed)
    IN IF next = sets THEN sets ELSE IrqFixpointFrom(p, f, next, analyzed)

\* The cache after the run of the driver that takes the callees of every
\* function in ascending order: AscendingFunction is
\* analyze_function_interrupt_set, AscendingEach its loop over the callees
\* and the loop of analyze_interrupt_set over the body owners.
RECURSIVE AscendingFunction(_, _, _, _)
RECURSIVE AscendingEach(_, _, _, _)
AscendingFunction(p, f, analyzed, stack) ==
    IF f \in DOMAIN analyzed \/ f \in stack \/ f \notin MirAvailable(p)
    THEN analyzed
    ELSE LET after == AscendingEach(p, SetToSeq(Callees(p, f)), analyzed,
                                    stack \cup {f})
             sets == IrqFixpointFrom(p, f, [b \in Blocks(p, f) |-> "Bottom"],
                                     after)
         IN (f :> FuncIrqInfo(p, f, sets, after)) @@ after

AscendingEach(p, todo, analyzed, stack) ==
    IF todo = << >> THEN analyzed
    ELSE AscendingEach(p, Tail(todo),
                       AscendingFunction(p, Head(todo), analyzed, stack), stack)

\* C39: the results the ISR driver saves do not depend on the order in
\* which the callees of a function are visited: whatever the order of the
\* run, they are the results of the run that takes them in ascending
\* order, for functions on a call-graph cycle too.
IsrResultsAnyOrder ==
    stage # "isr"
    => program_isr_info.func_irq_infos
         = AscendingEach(prog, BodyOwners(prog), EmptyMap, {})

\* Every lock the lockset may hold has a recorded acquisition site.
HeldLocksHaveSites(lockset) ==
    \A l \in Locks :
       lockset.lock_states[l] = "MayHold" => lockset.lock_sites[l] # {}

\* C40: in every lockset of the lockset analysis, the block-entry locksets
\* of the running analysis and the entry, exit and block-entry locksets of
\* every cached result, each lock in state MayHold has a non-empty set of
\* recorded acquisition sites.
MayHoldHasSite ==
    /\ func_analyzer.active
       => \A b \in DOMAIN func_analyzer.entry_sets :
             HeldLocksHaveSites(func_analyzer.entry_sets[b])
    /\ \A f \in DOMAIN analyzed_functions :
          /\ HeldLocksHaveSites(analyzed_functions[f].entry_lockset)
          /\ HeldLocksHaveSites(analyzed_functions[f].exit_lockset)
          /\ \A b \in DOMAIN analyzed_functions[f].pre_bb_locksets :
                HeldLocksHaveSites(analyzed_functions[f].pre_bb_locksets[b])

====
